---- MODULE Spec2Model ----
(***************************************************************************)
(* A model of the tree navigation and mutation engine of easyjson          *)
(* (package easyjson, type JSON): path tokenisation, PathExists,           *)
(* GetByPath, SetByPath, RemoveByPath and DeepMerge, over JSON values      *)
(* held in a JSON handle.                                                  *)
(*                                                                         *)
(* A Go interface{} value of the tree is modelled as a tagged record:      *)
(*   nil                      -> [k |-> "null"]                            *)
(*   a scalar (number, text)  -> [k |-> "scalar", s |-> atom]              *)
(*   []interface{}            -> [k |-> "arr", e |-> sequence of values]   *)
(*   map[string]interface{}   -> [k |-> "obj", m |-> function key->value]  *)
(* A path string is a sequence of one-character strings; an object key is  *)
(* a token, that is a sequence of characters too.  Go positions in a path  *)
(* are 0-based; position i of the Go string is element i+1 here.           *)
(***************************************************************************)
EXTENDS Integers, Sequences, FiniteSets, TLC

VARIABLES
    root,   \* the Value of the JSON handle j
    prev,   \* j.Value before the last call
    op,     \* the last call: "init", "set", "remove", "merge", "get", "exists"
    path,   \* the path string of the last call
    arg,    \* the value argument of the last call (v of SetByPath, DeepMerge)
    ok,     \* the boolean the last call returned
    got,    \* the value the last GetByPath returned
    steps,  \* calls made so far
    start,  \* j.Value before the first call
    calls,  \* the SetByPath calls made so far: their path, value and result
    other,  \* the Value of a second JSON handle
    ostart, \* the second handle's Value before the first call
    norms,  \* the Normalize calls made so far on each of the two handles
    heap,   \* the cells (maps and backing arrays) of the two-handle specifications
    hnd,    \* the Value of each handle over the heap
    seen,   \* the tree seen through each handle before the last call
    alone,  \* the tree the calls made through each handle produce on their own
    actor   \* the handle of the last call

normVars == <<other, ostart, norms>>

heapVars == <<heap, hnd, seen, alone, actor>>

vars == <<root, prev, op, path, arg, ok, got, steps, start, calls, normVars, heapVars>>

-----------------------------------------------------------------------------
(* Bounds of the model *)

\* longest path string, in characters
MaxPathLen == 4
\* longest array of an initial tree
MaxArrLen == 2
\* pushes applied to one handle in one behaviour of the push specification
MaxPushes == 3
\* largest array index a path given to SetByPath may name
MaxIndex == 11
\* longest array of a tree given to Normalize
MaxNormLen == 3
\* calls made through the handles of the two-handle specifications
MaxHeapSteps == 2
\* the sets made one after another on one handle
MaxFrameSets == 2

-----------------------------------------------------------------------------
(* Values *)

Null == [k |-> "null"]
Scalar(s) == [k |-> "scalar", s |-> s]
Arr(e) == [k |-> "arr", e |-> e]
Obj(m) == [k |-> "obj", m |-> m]

IsObject(v) == v.k = "obj"
IsArray(v) == v.k = "arr"
IsNull(v) == v.k = "null"

\* make(map[string]interface{}) / map[string]interface{}{}
NewJSONObject == Obj([t \in {} |-> Null])
\* make([]interface{}, 0)
NewJSONArray == Arr(<<>>)

\* m[key] = v on a Go map
MapPut(m, key, v) == [t \in (DOMAIN m) \cup {key} |-> IF t = key THEN v ELSE m[t]]
\* MapDelete that leaves a key holding Null in place
MapDelete_KeepNull(m, key) ==
    IF key \in DOMAIN m /\ m[key].k = "null" THEN m
    ELSE [t \in (DOMAIN m) \ {key} |-> m[t]]

\* delete(m, key) on a Go map
MapDelete(m, key) == [t \in (DOMAIN m) \ {key} |-> m[t]]

-----------------------------------------------------------------------------
(* Path tokenizer *)

\* the default delimiter byte
Delim == "."

\* the scan  for j < len(p) && p[j] != delim { j++ }  started at j
RECURSIVE ScanToken(_, _)
ScanToken(p, j) ==
    IF j < Len(p) /\ p[j + 1] # Delim THEN ScanToken(p, j + 1) ELSE j

nextPathToken(p, i) ==
    IF i >= Len(p)
    THEN [tok |-> <<>>, next |-> i, ok |-> FALSE]
    ELSE LET j == ScanToken(p, i)
         IN [tok |-> SubSeq(p, i + 1, j),
             next |-> IF j < Len(p) /\ p[j + 1] = Delim THEN j + 1 ELSE j,
             ok |-> TRUE]

\* pathIter.next: the token at it.i and the new it.i
pathIterNext(p, i) ==
    IF i >= Len(p)
    THEN [tok |-> <<>>, i |-> i, ok |-> FALSE]
    ELSE LET j == ScanToken(p, i)
         IN [tok |-> SubSeq(p, i + 1, j),
             i |-> IF j < Len(p) /\ p[j + 1] = Delim THEN j + 1 ELSE j,
             ok |-> TRUE]

\* the decimal digit characters, in order
DigitChars == <<"0", "1", "2", "3", "4", "5", "6", "7", "8", "9">>

\* value of a decimal digit character, -1 when the character is no digit
DigitVal(c) ==
    IF \E i \in 1..10 : DigitChars[i] = c
    THEN (CHOOSE i \in 1..10 : DigitChars[i] = c) - 1
    ELSE -1

RECURSIVE DigitsValue(_, _)
\* n = n*10 + digit over the characters of s, starting from acc
DigitsValue(s, acc) ==
    IF s = <<>> THEN acc ELSE DigitsValue(Tail(s), acc * 10 + DigitVal(Head(s)))

\* Atoi reading a token that is no numeral as 1, without an error
Atoi_ReadsAnythingAsOne(tok) ==
    LET signed == tok # <<>> /\ Head(tok) \in {"-", "+"}
        digits == IF signed THEN Tail(tok) ELSE tok
        bad == digits = <<>> \/ \E i \in 1..Len(digits) : DigitVal(digits[i]) < 0
        n == DigitsValue(digits, 0)
    IN IF bad THEN [err |-> FALSE, n |-> 1]
       ELSE [err |-> FALSE, n |-> IF signed /\ Head(tok) = "-" THEN 0 - n ELSE n]

\* strconv.Atoi: an optional sign, then at least one digit, digits only
Atoi(tok) ==
    LET signed == tok # <<>> /\ Head(tok) \in {"-", "+"}
        digits == IF signed THEN Tail(tok) ELSE tok
        bad == digits = <<>> \/ \E i \in 1..Len(digits) : DigitVal(digits[i]) < 0
        n == DigitsValue(digits, 0)
    IN IF bad THEN [err |-> TRUE, n |-> 0]
       ELSE [err |-> FALSE, n |-> IF signed /\ Head(tok) = "-" THEN 0 - n ELSE n]

-----------------------------------------------------------------------------
(* Navigator *)

RECURSIVE existsLoop(_, _, _)
\* existsLoop that reports a Null array slot as absent
existsLoop_HoleIsAbsent(cur, p, i) ==
    LET t == pathIterNext(p, i)
    IN IF ~t.ok \/ t.tok = <<>> THEN TRUE
       ELSE CASE IsObject(cur) ->
                   IF t.tok \notin DOMAIN cur.m THEN FALSE
                   ELSE existsLoop(cur.m[t.tok], p, t.i)
              [] IsArray(cur) ->
                   LET a == Atoi(t.tok)
                   IN IF a.err \/ a.n < 0 \/ a.n >= Len(cur.e) THEN FALSE
                      ELSE IF IsNull(cur.e[a.n + 1]) THEN FALSE
                      ELSE existsLoop(cur.e[a.n + 1], p, t.i)
              [] OTHER -> FALSE

\* the for loop of PathExists, at node cur with the iterator at position i
existsLoop(cur, p, i) ==
    LET t == pathIterNext(p, i)
    IN IF ~t.ok \/ t.tok = <<>> THEN TRUE
       ELSE CASE IsObject(cur) ->
                   IF t.tok \notin DOMAIN cur.m THEN FALSE
                   ELSE existsLoop(cur.m[t.tok], p, t.i)
              [] IsArray(cur) ->
                   LET a == Atoi(t.tok)
                   IN IF a.err \/ a.n < 0 \/ a.n >= Len(cur.e) THEN FALSE
                      ELSE existsLoop(cur.e[a.n + 1], p, t.i)
              [] OTHER -> FALSE

PathExists(j, p) == IF p = <<>> THEN TRUE ELSE existsLoop(j, p, 0)

RECURSIVE getLoop(_, _, _)
\* the for loop of GetByPath, at node cur with the iterator at position i
getLoop(cur, p, i) ==
    LET t == pathIterNext(p, i)
    IN IF ~t.ok \/ t.tok = <<>> THEN cur
       ELSE CASE IsObject(cur) ->
                   IF t.tok \notin DOMAIN cur.m THEN Null
                   ELSE getLoop(cur.m[t.tok], p, t.i)
              [] IsArray(cur) ->
                   LET a == Atoi(t.tok)
                   IN IF a.err \/ a.n < 0 \/ a.n >= Len(cur.e) THEN Null
                      ELSE getLoop(cur.e[a.n + 1], p, t.i)
              [] OTHER -> Null

GetByPath(j, p) == IF p = <<>> THEN j ELSE getLoop(j, p, 0)

-----------------------------------------------------------------------------
(* Mutator: set *)

jvAddValueToArray(jArray, v) == Append(jArray, v)

RECURSIVE growLoop_OneMore(_, _)
\* growLoop with the condition len(*jArray) <= id + 1
growLoop_OneMore(jArray, id) ==
    IF Len(jArray) <= id + 1
    THEN growLoop_OneMore(jvAddValueToArray(jArray, Null), id)
    ELSE jArray

RECURSIVE growLoop(_, _)
\* the rest of the loop of jvSetArrayValue after its first pass:
\* the condition len(*jArray) <= id is tested after each append
growLoop(jArray, id) ==
    IF Len(jArray) <= id THEN growLoop(jvAddValueToArray(jArray, Null), id) ELSE jArray

\* jvSetArrayValue with the store (*jArray)[id] = v made only when no
\* growth was needed
jvSetArrayValue_NoStoreAfterGrow(jArray, id, v) ==
    IF id >= 0 /\ id < Len(jArray)
    THEN [jvAddValueToArray(jArray, Null) EXCEPT ![id + 1] = v]
    ELSE growLoop(jvAddValueToArray(jArray, Null), id)

\* jvSetArrayValue with v put in before slot id of an array that has the
\* slot, the elements from slot id on moving up by one
jvSetArrayValue_InsertsBeforeSlot(jArray, id, v) ==
    IF id >= 0 /\ id < Len(jArray)
    THEN SubSeq(jArray, 1, id) \o <<v>> \o SubSeq(jArray, id + 1, Len(jArray))
    ELSE [growLoop(jvAddValueToArray(jArray, Null), id) EXCEPT ![id + 1] = v]

\* the elements of *jArray after jvSetArrayValue(jArray, id, v)
jvSetArrayValue(jArray, id, v) ==
    IF id >= 0 /\ Len(jArray) >= 0
    THEN LET grown == growLoop(jvAddValueToArray(jArray, Null), id)
         IN [grown EXCEPT ![id + 1] = v]
    ELSE jArray

\* createChild with a look-ahead: an array when the following token is a number
createChild_LookAhead(p, next) ==
    IF Atoi(nextPathToken(p, next).tok).err THEN NewJSONObject ELSE NewJSONArray

\* the node created under a missing or Null key of an object for a non-last
\* token; next is the position of the following token (not looked at)
createChild(p, next) == NewJSONObject

\* append with the value put in front of the elements
appendValue_AtFront(cv, v) == <<v>> \o cv

\* cv = append(cv, *v)
appendValue(cv, v) == Append(cv, v)

RECURSIVE set(_, _, _, _)
\* The closure set of jvSetValueByPath.  ok is its second result.  val is the
\* node as the call leaves it in memory: the returned node on success, and on
\* failure the node cur with the writes already made through the maps of the
\* branch (a Go map is a reference: cv[tok] = ... is visible to every holder).
set(cur, p, v, pos) ==
    LET t == nextPathToken(p, pos)
        last == t.next >= Len(p)
    IN IF ~t.ok \/ t.tok = <<>> THEN [val |-> cur, ok |-> FALSE]
       ELSE CASE IsObject(cur) ->
                   IF last THEN [val |-> Obj(MapPut(cur.m, t.tok, v)), ok |-> TRUE]
                   ELSE LET exists == t.tok \in DOMAIN cur.m
                            create == ~exists \/ IsNull(cur.m[t.tok])
                            child == IF create THEN createChild(p, t.next) ELSE cur.m[t.tok]
                            r == set(child, p, v, t.next)
                        IN [val |-> Obj(MapPut(cur.m, t.tok, r.val)), ok |-> r.ok]
              [] IsArray(cur) ->
                   LET a == Atoi(t.tok)
                   IN IF a.err THEN [val |-> cur, ok |-> FALSE]
                      ELSE IF last
                           THEN IF a.n < 0
                                THEN [val |-> Arr(appendValue(cur.e, v)), ok |-> TRUE]
                                ELSE [val |-> Arr(jvSetArrayValue(cur.e, a.n, v)),
                                      ok |-> TRUE]
                           ELSE IF a.n < 0 \/ a.n >= Len(cur.e)
                                THEN [val |-> cur, ok |-> FALSE]
                                ELSE LET r == set(cur.e[a.n + 1], p, v, t.next)
                                     IN [val |-> Arr([cur.e EXCEPT ![a.n + 1] = r.val]),
                                         ok |-> r.ok]
              [] OTHER -> [val |-> cur, ok |-> FALSE]

\* jvSetValueByPath on the handle's value jv: the value the handle holds
\* afterwards and the returned flag
jvSetValueByPath(jv, p, v) == set(jv, p, v, 0)

-----------------------------------------------------------------------------
(* Mutator: remove *)

\* clearSlot that takes the element out of the array
clearSlot_Shrink(e, id) == SubSeq(e, 1, id) \o SubSeq(e, id + 2, Len(e))

\* clearSlot that cuts the array off at slot id
clearSlot_Truncate(e, id) == SubSeq(e, 1, id)

\* cv[id] = nil
clearSlot(e, id) == [e EXCEPT ![id + 1] = Null]

RECURSIVE rm(_, _, _)
\* The closure rm of jvRemoveValueByPath, called with a pointer cur.
\*   ptr: what the pointed-to location holds afterwards;
\*   val: the node that location held at the call, as the writes made
\*        through its maps and slices leave it;
\*   ok:  the result.
rm(cur, p, idx) ==
    LET t == nextPathToken(p, idx)
        last == t.next >= Len(p)
    IN IF ~t.ok \/ t.tok = <<>> THEN [ptr |-> Null, val |-> cur, ok |-> TRUE]
       ELSE CASE IsObject(cur) ->
                   IF last
                   THEN LET d == Obj(MapDelete(cur.m, t.tok))
                        IN [ptr |-> d, val |-> d, ok |-> TRUE]
                   ELSE IF t.tok \notin DOMAIN cur.m
                        THEN [ptr |-> cur, val |-> cur, ok |-> TRUE]
                        ELSE \* rm(&nxt, next): nxt is a local copy of cv[tok]
                             LET r == rm(cur.m[t.tok], p, t.next)
                                 d == Obj(MapPut(cur.m, t.tok, r.val))
                             IN [ptr |-> d, val |-> d, ok |-> r.ok]
              [] IsArray(cur) ->
                   LET a == Atoi(t.tok)
                   IN IF a.err \/ a.n < 0 \/ a.n >= Len(cur.e)
                      THEN [ptr |-> cur, val |-> cur, ok |-> FALSE]
                      ELSE IF last
                           THEN LET d == Arr(clearSlot(cur.e, a.n))
                                IN [ptr |-> d, val |-> d, ok |-> TRUE]
                           ELSE \* rm(&cv[id], next): the slot itself
                                LET r == rm(cur.e[a.n + 1], p, t.next)
                                    d == Arr([cur.e EXCEPT ![a.n + 1] = r.ptr])
                                IN [ptr |-> d, val |-> d, ok |-> r.ok]
              [] OTHER -> [ptr |-> cur, val |-> cur, ok |-> FALSE]

\* jvRemoveValueByPath with rm given a copy of the handle's field: what rm
\* writes through its pointer is lost
jvRemoveValueByPath_ByValue(jv, p) ==
    LET r == rm(jv, p, 0) IN [val |-> r.val, ok |-> r.ok]

\* jvRemoveValueByPath(&j.Value, p): rm is given the handle's own field
jvRemoveValueByPath(jv, p) ==
    LET r == rm(jv, p, 0) IN [val |-> r.ptr, ok |-> r.ok]

-----------------------------------------------------------------------------
(* Merger *)

\* reflect.DeepEqual on tree values
DeepEqual(a, b) == a = b

\* IsDup that never finds a duplicate
IsDup_Never(a1, v2) == FALSE

\* the inner loop of the array case: some non-nil element of a1 equals v2
IsDup(a1, v2) == \E i \in 1..Len(a1) : ~IsNull(a1[i]) /\ DeepEqual(a1[i], v2)

RECURSIVE mergeArrayLoop(_, _)
\* the loop  for _, v2 := range x2  of the array case, with a1 so far
mergeArrayLoop(a1, x2) ==
    IF x2 = <<>> THEN a1
    ELSE LET v2 == Head(x2)
         IN IF IsNull(v2) THEN mergeArrayLoop(a1, Tail(x2))
            ELSE IF IsDup(a1, v2) THEN mergeArrayLoop(a1, Tail(x2))
            ELSE mergeArrayLoop(Append(a1, v2), Tail(x2))

RECURSIVE jvDeepMerge(_, _)
\* jvDeepMerge that overwrites a container *jv1 when *jv2 is of another kind
jvDeepMerge_OverwriteOnMismatch(jv1, jv2) ==
    CASE IsObject(jv1) /\ IsObject(jv2) ->
           Obj([t \in (DOMAIN jv1.m) \cup (DOMAIN jv2.m) |->
                  IF t \notin DOMAIN jv2.m THEN jv1.m[t]
                  ELSE IF t \in DOMAIN jv1.m
                       THEN jvDeepMerge(jv1.m[t], jv2.m[t])
                       ELSE jv2.m[t]])
      [] IsArray(jv1) /\ IsArray(jv2) -> Arr(mergeArrayLoop(jv1.e, jv2.e))
      [] OTHER -> jv2

\* jvDeepMerge that stores src's value under a key both Objects have
jvDeepMerge_SrcWinsOnCommonKey(jv1, jv2) ==
    CASE IsObject(jv1) ->
           IF IsObject(jv2)
           THEN Obj([t \in (DOMAIN jv1.m) \cup (DOMAIN jv2.m) |->
                       IF t \notin DOMAIN jv2.m THEN jv1.m[t] ELSE jv2.m[t]])
           ELSE jv1
      [] IsArray(jv1) ->
           IF IsArray(jv2) THEN Arr(mergeArrayLoop(jv1.e, jv2.e)) ELSE jv1
      [] OTHER -> jv2

\* the value *jv1 holds after jvDeepMerge(jv1, jv2)
jvDeepMerge(jv1, jv2) ==
    CASE IsObject(jv1) ->
           IF IsObject(jv2)
           THEN Obj([t \in (DOMAIN jv1.m) \cup (DOMAIN jv2.m) |->
                       IF t \notin DOMAIN jv2.m THEN jv1.m[t]
                       ELSE IF t \in DOMAIN jv1.m
                            THEN jvDeepMerge(jv1.m[t], jv2.m[t])
                            ELSE jv2.m[t]])
           ELSE jv1
      [] IsArray(jv1) ->
           IF IsArray(jv2) THEN Arr(mergeArrayLoop(jv1.e, jv2.e)) ELSE jv1
      [] OTHER -> jv2

-----------------------------------------------------------------------------
(* Canonicalizer *)

\* Scalars carry their Go dynamic type t: "string" with the characters s,
\* "bool" with n 1 for true, a numeric type with the value n, or
\* "json.Number" with the characters s of the literal.
Str(cs) == Scalar([t |-> "string", n |-> 0, s |-> cs])
Bool(b) == Scalar([t |-> "bool", n |-> IF b THEN 1 ELSE 0, s |-> <<>>])
Num(t, n) == Scalar([t |-> t, n |-> n, s |-> <<>>])
JsonNumber(cs) == Scalar([t |-> "json.Number", n |-> 0, s |-> cs])

\* the numeric types normalizeValue converts to float64
ConvertedTypes ==
    {"float32", "int", "int8", "int16", "int32", "int64",
     "uint", "uint8", "uint16", "uint32", "uint64"}

\* the byte of a character of a canonical string
ByteOf(c) ==
    CASE c = "\"" -> 34 [] c = "," -> 44 [] c = "-" -> 45
      [] c = ":" -> 58 [] c = "[" -> 91 [] c = "]" -> 93
      [] c = "a" -> 97 [] c = "b" -> 98 [] c = "e" -> 101 [] c = "f" -> 102
      [] c = "l" -> 108 [] c = "n" -> 110 [] c = "r" -> 114 [] c = "s" -> 115
      [] c = "t" -> 116 [] c = "u" -> 117 [] c = "x" -> 120 [] c = "z" -> 122
      [] c = "{" -> 123 [] c = "}" -> 125
      [] OTHER -> 48 + DigitVal(c)

RECURSIVE StrLess(_, _)
\* s < t on Go strings: bytewise lexicographic order
StrLess(s, t) ==
    IF t = <<>> THEN FALSE
    ELSE IF s = <<>> THEN TRUE
    ELSE IF ByteOf(Head(s)) # ByteOf(Head(t)) THEN ByteOf(Head(s)) < ByteOf(Head(t))
    ELSE StrLess(Tail(s), Tail(t))

RECURSIVE Itoa(_)
\* the decimal digits of a non-negative integer
Itoa(n) ==
    IF n < 10 THEN <<DigitChars[n + 1]>>
    ELSE Itoa(n \div 10) \o <<DigitChars[(n % 10) + 1]>>

\* json.Marshal of a float64 holding an integer
MarshalFloat(n) == IF n < 0 THEN <<"-">> \o Itoa(0 - n) ELSE Itoa(n)

\* json.Marshal of a string of plain characters: the characters in quotes
MarshalString(cs) == <<"\"">> \o cs \o <<"\"">>

\* json.Number.Float64 on a literal of sign and digits
ParseFloat(cs) == Atoi(cs)

RECURSIVE SortStrings(_)
\* sort.Strings on a set of keys: the keys in ascending order
SortStrings(S) ==
    IF S = {} THEN <<>>
    ELSE LET first == CHOOSE key \in S : \A o \in S \ {key} : StrLess(key, o)
         IN <<first>> \o SortStrings(S \ {first})

RECURSIVE JoinComma(_)
\* the strings of a sequence, with a comma before each but the first
JoinComma(ss) ==
    IF ss = <<>> THEN <<>>
    ELSE IF Len(ss) = 1 THEN ss[1]
    ELSE ss[1] \o <<",">> \o JoinComma(Tail(ss))

RECURSIVE canonicalString(_)
canonicalString(v) ==
    CASE IsNull(v) -> <<"n", "u", "l", "l">>
      [] IsArray(v) ->
           <<"[">> \o JoinComma([i \in 1..Len(v.e) |-> canonicalString(v.e[i])])
                   \o <<"]">>
      [] IsObject(v) ->
           LET keys == SortStrings(DOMAIN v.m)
           IN <<"{">> \o JoinComma([i \in 1..Len(keys) |->
                           MarshalString(keys[i]) \o <<":">>
                               \o canonicalString(v.m[keys[i]])])
                      \o <<"}">>
      [] OTHER ->
           CASE v.s.t = "bool" ->
                  IF v.s.n = 1 THEN <<"t", "r", "u", "e">>
                  ELSE <<"f", "a", "l", "s", "e">>
             [] v.s.t = "string" -> MarshalString(v.s.s)
             [] v.s.t = "json.Number" ->
                  \* the fallback: json.Marshal writes a valid literal as it
                  \* is and fails, leaving no bytes, on an invalid one
                  IF ParseFloat(v.s.s).err THEN <<>> ELSE v.s.s
             [] OTHER -> MarshalFloat(v.s.n)

\* the comparison given to sort.SliceStable
less(a, b) == StrLess(canonicalString(a), canonicalString(b))

RECURSIVE InsertStable(_, _)
\* x put into the sorted sequence behind every element that is not greater
InsertStable(sorted, x) ==
    IF sorted = <<>> THEN <<x>>
    ELSE IF less(x, Head(sorted)) THEN <<x>> \o sorted
    ELSE <<Head(sorted)>> \o InsertStable(Tail(sorted), x)

RECURSIVE SortFrom(_, _)
SortFrom(sorted, rest) ==
    IF rest = <<>> THEN sorted
    ELSE SortFrom(InsertStable(sorted, Head(rest)), Tail(rest))

\* SliceStable that leaves the elements in the order they came in
SliceStable_KeepOrder(arr) == arr

\* sort.SliceStable(arr, less): the stable sorted arrangement of arr
SliceStable(arr) == SortFrom(<<>>, arr)

RECURSIVE normalizeValue(_)
RECURSIVE DropRepeats(_)
\* s without the elements equal to their predecessor
DropRepeats(s) ==
    IF Len(s) < 2 THEN s
    ELSE IF s[Len(s)] = s[Len(s) - 1] THEN DropRepeats(SubSeq(s, 1, Len(s) - 1))
    ELSE Append(DropRepeats(SubSeq(s, 1, Len(s) - 1)), s[Len(s)])

\* normalizeElements that appends an element only when it differs from the
\* element appended before it
normalizeElements_SkipRepeats(x) ==
    DropRepeats([i \in 1..Len(x) |-> normalizeValue(x[i])])

\* the loop  for _, e := range x { arr = append(arr, normalizeValue(e)) }
normalizeElements(x) == [i \in 1..Len(x) |-> normalizeValue(x[i])]

\* normalizeValue that sorts an array before it normalizes the elements
normalizeValue_SortFirst(v) ==
    CASE IsObject(v) -> Obj([key \in DOMAIN v.m |-> normalizeValue(v.m[key])])
      [] IsArray(v) -> Arr(normalizeElements(SliceStable(v.e)))
      [] IsNull(v) -> v
      [] OTHER ->
           CASE v.s.t \in ConvertedTypes -> Num("float64", v.s.n)
             [] v.s.t = "json.Number" ->
                  IF ParseFloat(v.s.s).err THEN Str(v.s.s)
                  ELSE Num("float64", ParseFloat(v.s.s).n)
             [] OTHER -> v

normalizeValue(v) ==
    CASE IsObject(v) -> Obj([key \in DOMAIN v.m |-> normalizeValue(v.m[key])])
      [] IsArray(v) -> Arr(SliceStable(normalizeElements(v.e)))
      [] IsNull(v) -> v
      [] OTHER ->
           CASE v.s.t \in ConvertedTypes -> Num("float64", v.s.n)
             [] v.s.t = "json.Number" ->
                  IF ParseFloat(v.s.s).err THEN Str(v.s.s)
                  ELSE Num("float64", ParseFloat(v.s.s).n)
             [] OTHER -> v

\* j1.Equals(j2): reflect.DeepEqual of the two values
Equals(j1, j2) == DeepEqual(j1, j2)

-----------------------------------------------------------------------------
(* The heap: maps and backing arrays are cells, values refer to them *)

(***************************************************************************)
(* A Go map value is a reference to a map, a slice value is a pointer to   *)
(* a backing array with a length (the capacity is the length of the        *)
(* backing array: no slice of the program is a proper sub-slice).  In a    *)
(* heap h, a sequence of cells, a value is Null, a scalar, MapRef(a) or    *)
(* Slice(a, n) with a the index of a cell; Slice(0, 0) is the empty slice  *)
(* without a backing array.  The operators below are the operations of     *)
(* the mutator, the merger and Clone again, with the heap threaded         *)
(* through: they return the heap they leave beside their results.          *)
(***************************************************************************)
MapRef(a) == [k |-> "map", a |-> a]
Slice(a, n) == [k |-> "slice", a |-> a, n |-> n]
IsMapRef(v) == v.k = "map"
IsSlice(v) == v.k = "slice"
MapCell(m) == [k |-> "map", m |-> m]
ArrayCell(e) == [k |-> "array", e |-> e]
EmptyMap == [t \in {} |-> Null]

\* cap(s) and the elements s[0:len(s)]
CapOf(h, s) == IF s.a = 0 THEN 0 ELSE Len(h[s.a].e)
ElemsOf(h, s) == IF s.n = 0 THEN <<>> ELSE SubSeq(h[s.a].e, 1, s.n)

\* h with the map of cell a given v under key
HeapMapPut(h, a, key, v) == [h EXCEPT ![a] = MapCell(MapPut(h[a].m, key, v))]
\* h with element id (0-based) of backing array a set to v
HeapStore(h, a, id, v) == [h EXCEPT ![a] = ArrayCell([h[a].e EXCEPT ![id + 1] = v])]

\* append(s, v): in place when the capacity allows, else into a new backing
\* array of twice the capacity (of capacity 1 from none), as the gc runtime
\* grows small slices
appendH(h, s, v) ==
    IF s.n < CapOf(h, s)
    THEN [h |-> HeapStore(h, s.a, s.n, v), val |-> Slice(s.a, s.n + 1)]
    ELSE LET newcap == IF CapOf(h, s) = 0 THEN 1 ELSE 2 * CapOf(h, s)
             old == ElemsOf(h, s)
             e == [i \in 1..newcap |->
                     IF i <= s.n THEN old[i] ELSE IF i = s.n + 1 THEN v ELSE Null]
         IN [h |-> Append(h, ArrayCell(e)), val |-> Slice(Len(h) + 1, s.n + 1)]

RECURSIVE growLoopH(_, _, _)
growLoopH(h, s, id) ==
    IF s.n <= id
    THEN LET r == appendH(h, s, Null) IN growLoopH(r.h, r.val, id)
    ELSE [h |-> h, val |-> s]

\* jvSetArrayValue(&s, id, v): the heap and the slice *jArray afterwards
jvSetArrayValueH(h, s, id, v) ==
    IF id >= 0 /\ s.n >= 0
    THEN LET r == appendH(h, s, Null)
             g == growLoopH(r.h, r.val, id)
         IN [h |-> HeapStore(g.h, g.val.a, id, v), val |-> g.val]
    ELSE [h |-> h, val |-> s]

RECURSIVE setH(_, _, _, _, _)
\* the closure set of jvSetValueByPath: the heap it leaves, the node it
\* returns and its flag
setH(h, cur, p, v, pos) ==
    LET t == nextPathToken(p, pos)
        last == t.next >= Len(p)
    IN IF ~t.ok \/ t.tok = <<>> THEN [h |-> h, val |-> Null, ok |-> FALSE]
       ELSE CASE IsMapRef(cur) ->
                   IF last
                   THEN [h |-> HeapMapPut(h, cur.a, t.tok, v), val |-> cur, ok |-> TRUE]
                   ELSE LET m == h[cur.a].m
                            create == t.tok \notin DOMAIN m \/ IsNull(m[t.tok])
                            fresh == MapRef(Len(h) + 1)
                            h1 == IF create
                                  THEN Append(HeapMapPut(h, cur.a, t.tok, fresh),
                                              MapCell(EmptyMap))
                                  ELSE h
                            child == IF create THEN fresh ELSE m[t.tok]
                            r == setH(h1, child, p, v, t.next)
                        IN IF ~r.ok THEN [h |-> r.h, val |-> cur, ok |-> FALSE]
                           ELSE [h |-> HeapMapPut(r.h, cur.a, t.tok, r.val),
                                 val |-> cur, ok |-> TRUE]
              [] IsSlice(cur) ->
                   LET a == Atoi(t.tok)
                   IN IF a.err THEN [h |-> h, val |-> cur, ok |-> FALSE]
                      ELSE IF last
                           THEN LET r == IF a.n < 0 THEN appendH(h, cur, v)
                                         ELSE jvSetArrayValueH(h, cur, a.n, v)
                                IN [h |-> r.h, val |-> r.val, ok |-> TRUE]
                           ELSE IF a.n < 0 \/ a.n >= cur.n
                                THEN [h |-> h, val |-> cur, ok |-> FALSE]
                                ELSE LET r == setH(h, h[cur.a].e[a.n + 1], p, v, t.next)
                                     IN IF ~r.ok
                                        THEN [h |-> r.h, val |-> cur, ok |-> FALSE]
                                        ELSE [h |-> HeapStore(r.h, cur.a, a.n, r.val),
                                              val |-> cur, ok |-> TRUE]
              [] OTHER -> [h |-> h, val |-> cur, ok |-> FALSE]

\* jvSetValueByPath(nil, "", &j.Value, p, &v.Value, delim): the heap, the
\* handle's value afterwards (*jv = newRoot on success only) and the flag
jvSetValueByPathH(h, jv, p, v) ==
    LET r == setH(h, jv, p, v, 0)
    IN [h |-> r.h, val |-> IF r.ok THEN r.val ELSE jv, ok |-> r.ok]

RECURSIVE rmH(_, _, _, _)
\* the closure rm of jvRemoveValueByPath, called with a pointer to a
\* location holding cur: the heap it leaves, what the location holds
\* afterwards (ptr) and its flag
rmH(h, cur, p, idx) ==
    LET t == nextPathToken(p, idx)
        last == t.next >= Len(p)
    IN IF ~t.ok \/ t.tok = <<>> THEN [h |-> h, ptr |-> Null, ok |-> TRUE]
       ELSE CASE IsMapRef(cur) ->
                   IF last
                   THEN [h |-> [h EXCEPT ![cur.a] = MapCell(MapDelete(h[cur.a].m, t.tok))],
                         ptr |-> cur, ok |-> TRUE]
                   ELSE IF t.tok \notin DOMAIN h[cur.a].m
                        THEN [h |-> h, ptr |-> cur, ok |-> TRUE]
                        ELSE \* rm(&nxt, next): what nxt holds afterwards is dropped
                             LET r == rmH(h, h[cur.a].m[t.tok], p, t.next)
                             IN [h |-> r.h, ptr |-> cur, ok |-> r.ok]
              [] IsSlice(cur) ->
                   LET a == Atoi(t.tok)
                   IN IF a.err \/ a.n < 0 \/ a.n >= cur.n
                      THEN [h |-> h, ptr |-> cur, ok |-> FALSE]
                      ELSE IF last
                           THEN [h |-> HeapStore(h, cur.a, a.n, Null),
                                 ptr |-> cur, ok |-> TRUE]
                           ELSE \* rm(&cv[id], next): the location is the slot
                                LET r == rmH(h, h[cur.a].e[a.n + 1], p, t.next)
                                IN [h |-> HeapStore(r.h, cur.a, a.n, r.ptr),
                                    ptr |-> cur, ok |-> r.ok]
              [] OTHER -> [h |-> h, ptr |-> cur, ok |-> FALSE]

\* jvRemoveValueByPath(&j.Value, p, delim)
jvRemoveValueByPathH(h, jv, p) ==
    LET r == rmH(h, jv, p, 0) IN [h |-> r.h, val |-> r.ptr, ok |-> r.ok]

RECURSIVE getLoopH(_, _, _, _)
\* the for loop of GetByPath over the heap
getLoopH(h, cur, p, i) ==
    LET t == pathIterNext(p, i)
    IN IF ~t.ok \/ t.tok = <<>> THEN cur
       ELSE CASE IsMapRef(cur) ->
                   IF t.tok \notin DOMAIN h[cur.a].m THEN Null
                   ELSE getLoopH(h, h[cur.a].m[t.tok], p, t.i)
              [] IsSlice(cur) ->
                   LET a == Atoi(t.tok)
                   IN IF a.err \/ a.n < 0 \/ a.n >= cur.n THEN Null
                      ELSE getLoopH(h, h[cur.a].e[a.n + 1], p, t.i)
              [] OTHER -> Null

\* j.GetByPath(p): the value of the returned handle, which refers to the
\* cells of j's tree
GetByPathH(h, jv, p) == IF p = <<>> THEN jv ELSE getLoopH(h, jv, p, 0)

RECURSIVE Unfold(_, _)
\* the tree a value of the heap stands for
Unfold(h, v) ==
    CASE IsMapRef(v) -> Obj([key \in DOMAIN h[v.a].m |-> Unfold(h, h[v.a].m[key])])
      [] IsSlice(v) -> Arr([i \in 1..v.n |-> Unfold(h, h[v.a].e[i])])
      [] OTHER -> v

\* the slices and maps a heap can hold: one per map, one per length of an
\* array's backing array
HeapNodes(h) ==
    UNION {IF h[a].k = "map" THEN {<<a, 0>>} ELSE {<<a, n>> : n \in 0..Len(h[a].e)} :
           a \in 1..Len(h)}

RECURSIVE Finite(_, _, _)
\* the value v unfolds to a tree of at most n levels of containers
Finite(h, v, n) ==
    CASE IsMapRef(v) -> n > 0 /\ \A key \in DOMAIN h[v.a].m : Finite(h, h[v.a].m[key], n - 1)
      [] IsSlice(v) -> n > 0 /\ \A i \in 1..v.n : Finite(h, h[v.a].e[i], n - 1)
      [] OTHER -> TRUE

\* no container of the value v is reachable from itself: a chain of
\* containers longer than the heap has containers passes one of them twice
Acyclic(h, v) == Finite(h, v, Cardinality(HeapNodes(h)))

\* reflect.DeepEqual on two values of the heap
DeepEqualH(h, a, b) == Unfold(h, a) = Unfold(h, b)

\* the inner loop of the array case of jvDeepMerge
IsDupH(h, a1, v2) ==
    \E i \in 1..a1.n : ~IsNull(h[a1.a].e[i]) /\ DeepEqualH(h, h[a1.a].e[i], v2)

RECURSIVE mergeArrayLoopH(_, _, _, _)
\* the loop  for _, v2 := range x2  from element i (1-based) of x2 on; the
\* comparison is followed on values without cycles only (ret is FALSE where
\* it is not followed)
mergeArrayLoopH(h, a1, x2, i) ==
    IF i > x2.n THEN [h |-> h, val |-> a1, ret |-> TRUE]
    ELSE LET v2 == h[x2.a].e[i]
         IN IF IsNull(v2) THEN mergeArrayLoopH(h, a1, x2, i + 1)
            ELSE IF ~(Acyclic(h, a1) /\ Acyclic(h, v2))
            THEN [h |-> h, val |-> a1, ret |-> FALSE]
            ELSE IF IsDupH(h, a1, v2) THEN mergeArrayLoopH(h, a1, x2, i + 1)
            ELSE LET r == appendH(h, a1, v2)
                 IN mergeArrayLoopH(r.h, r.val, x2, i + 1)

\* a range loop that moves the first visited entry out of x2 into x1
mergeKeysH_MovesEntries(h, x1, x2, keys, order, depth) ==
    IF keys = <<>> THEN [h |-> h, ret |-> TRUE]
    ELSE LET k2 == Head(keys)
         IN [h |-> HeapMapPut(HeapMapPut(h, x1.a, k2, h[x2.a].m[k2]), x2.a, k2, Null),
             ret |-> TRUE]

RECURSIVE mergeH(_, _, _, _, _)
RECURSIVE mergeKeysH(_, _, _, _, _, _)
\* the loop  for k2, v2 := range x2  over the keys in the order keys
mergeKeysH(h, x1, x2, keys, order, depth) ==
    IF keys = <<>> THEN [h |-> h, ret |-> TRUE]
    ELSE LET k2 == Head(keys)
             v2 == h[x2.a].m[k2]
         IN IF k2 \in DOMAIN h[x1.a].m
            THEN LET r == mergeH(h, h[x1.a].m[k2], v2, order, depth - 1)
                 IN IF ~r.ret THEN [h |-> h, ret |-> FALSE]
                    ELSE mergeKeysH(HeapMapPut(r.h, x1.a, k2, r.val), x1, x2,
                                    Tail(keys), order, depth)
            ELSE mergeKeysH(HeapMapPut(h, x1.a, k2, v2), x1, x2, Tail(keys), order, depth)

\* jvDeepMerge(jv1, jv2) with depth calls of itself left to nest: the heap and
\* *jv1 afterwards, and whether the call returns; a range over a map visits
\* its keys in the order they have in the sequence order
mergeH(h, jv1, jv2, order, depth) ==
    IF depth = 0 THEN [h |-> h, val |-> jv1, ret |-> FALSE]
    ELSE CASE IsMapRef(jv1) ->
                IF IsMapRef(jv2)
                THEN LET InMap(key) == key \in DOMAIN h[jv2.a].m
                         r == mergeKeysH(h, jv1, jv2, SelectSeq(order, InMap), order, depth)
                     IN [h |-> r.h, val |-> jv1, ret |-> r.ret]
                ELSE [h |-> h, val |-> jv1, ret |-> TRUE]
           [] IsSlice(jv1) ->
                IF IsSlice(jv2) THEN mergeArrayLoopH(h, jv1, jv2, 1)
                ELSE [h |-> h, val |-> jv1, ret |-> TRUE]
           [] OTHER -> [h |-> h, val |-> jv2, ret |-> TRUE]

\* jvDeepMerge(jv1, jv2): a call that nests deeper than the heap has pairs of
\* containers is on a cycle and does not return
jvDeepMergeH(h, jv1, jv2, order) ==
    mergeH(h, jv1, jv2, order, Cardinality(HeapNodes(h)) * Cardinality(HeapNodes(h)) + 1)

RECURSIVE deepCopyH(_, _)
RECURSIVE copyEntries(_, _, _, _)
\* the loop  for k, vv := range x { m[k] = deepCopy(vv) }  over the keys K
copyEntries(h, x, K, m) ==
    IF K = {} THEN [h |-> h, m |-> m]
    ELSE LET key == CHOOSE t \in K : TRUE
             r == deepCopyH(h, x[key])
         IN copyEntries(r.h, x, K \ {key}, MapPut(m, key, r.val))

RECURSIVE copyElems(_, _, _)
\* the loop  for i, vv := range x { s[i] = deepCopy(vv) }  with s so far
copyElems(h, x, s) ==
    IF Len(s) = Len(x) THEN [h |-> h, e |-> s]
    ELSE LET r == deepCopyH(h, x[Len(s) + 1])
         IN copyElems(r.h, x, Append(s, r.val))

\* deepCopy returning the handle's own map or slice
deepCopyH_Shallow(h, v) == [h |-> h, val |-> v]

\* deepCopy(v): the heap with the copy's cells, and the copy
deepCopyH(h, v) ==
    CASE IsMapRef(v) ->
           LET r == copyEntries(h, h[v.a].m, DOMAIN h[v.a].m, EmptyMap)
           IN [h |-> Append(r.h, MapCell(r.m)), val |-> MapRef(Len(r.h) + 1)]
      [] IsSlice(v) ->
           LET r == copyElems(h, ElemsOf(h, v), <<>>)
           IN IF v.n = 0 THEN [h |-> r.h, val |-> Slice(0, 0)]
              ELSE [h |-> Append(r.h, ArrayCell(r.e)), val |-> Slice(Len(r.h) + 1, v.n)]
      [] OTHER -> [h |-> h, val |-> v]

RECURSIVE Build(_, _)
RECURSIVE buildEntries(_, _, _, _)
buildEntries(h, x, K, m) ==
    IF K = {} THEN [h |-> h, m |-> m]
    ELSE LET key == CHOOSE t \in K : TRUE
             r == Build(h, x[key])
         IN buildEntries(r.h, x, K \ {key}, MapPut(m, key, r.val))

RECURSIVE buildElems(_, _, _)
buildElems(h, x, s) ==
    IF Len(s) = Len(x) THEN [h |-> h, e |-> s]
    ELSE LET r == Build(h, x[Len(s) + 1])
         IN buildElems(r.h, x, Append(s, r.val))

\* NewJSON of a literal tree: its maps and slices laid out in the heap
Build(h, tree) ==
    CASE IsObject(tree) ->
           LET r == buildEntries(h, tree.m, DOMAIN tree.m, EmptyMap)
           IN [h |-> Append(r.h, MapCell(r.m)), val |-> MapRef(Len(r.h) + 1)]
      [] IsArray(tree) ->
           LET r == buildElems(h, tree.e, <<>>)
           IN IF tree.e = <<>> THEN [h |-> r.h, val |-> Slice(0, 0)]
              ELSE [h |-> Append(r.h, ArrayCell(r.e)),
                    val |-> Slice(Len(r.h) + 1, Len(tree.e))]
      [] OTHER -> [h |-> h, val |-> tree]

-----------------------------------------------------------------------------
(* Inputs *)

\* the characters of path strings: a letter, a digit, the sign, the delimiter
Alphabet == {"a", "1", "-", Delim}

\* every path string of at most MaxPathLen characters
Paths == UNION {[1..n -> Alphabet] : n \in 0..MaxPathLen}

Leaves == {Null, Scalar("x")}

RootKeys == {<<"a">>, <<"1">>}

\* objects over keys and arrays of at most MaxArrLen elements, with values in L
FlatObjects(L) == {Obj(m) : m \in UNION {[K -> L] : K \in SUBSET RootKeys}}
FlatArrays(L) == {Arr(e) : e \in UNION {[1..n -> L] : n \in 0..MaxArrLen}}
Flat(L) == FlatObjects(L) \cup FlatArrays(L)

\* the trees a handle starts with: leaves, flat containers, a flat
\* container held under key "a" of an object or in slot 1 of an array, and
\* objects holding an array under "a" beside a scalar under "1"
Roots ==
    Leaves \cup Flat(Leaves)
      \cup {Obj((<<"a">> :> t)) : t \in Flat(Leaves)}
      \cup {Arr(<<Scalar("x"), t>>) : t \in Flat(Leaves)}
      \cup {Obj((<<"a">> :> t) @@ (<<"1">> :> Scalar("x"))) : t \in FlatArrays(Leaves)}

\* the trees given to DeepMerge
MergeLeaves == {Null, Scalar("x"), Scalar("z")}
MergeSources ==
    MergeLeaves \cup Flat(MergeLeaves)
      \cup {Obj((<<"a">> :> t)) : t \in FlatArrays(MergeLeaves)}
      \cup {Arr(<<t>>) : t \in Flat(Leaves)}
      \cup {Obj((<<"a">> :> t) @@ (<<"-">> :> Scalar("z"))) : t \in FlatArrays(MergeLeaves)}

RECURSIVE IndexBounded(_, _)
\* no token of p from position i on is a number above MaxIndex
IndexBounded(p, i) ==
    LET t == nextPathToken(p, i)
        a == Atoi(t.tok)
    IN IF ~t.ok THEN TRUE
       ELSE IF ~a.err /\ a.n > MaxIndex THEN FALSE
       ELSE IndexBounded(p, t.next)

\* the values given to SetByPath
SetValues == {Null, Scalar("z"), Arr(<<Scalar("x")>>)}

-----------------------------------------------------------------------------
(* The handle and its methods *)

\* the single-handle specifications leave the heap empty
NoHeap ==
    /\ heap = <<>>
    /\ hnd = [j |-> Null, c |-> Null]
    /\ seen = [j |-> Null, c |-> Null]
    /\ alone = [j |-> Null, c |-> Null]
    /\ actor = "j"

Init ==
    /\ root \in Roots
    /\ prev = root
    /\ op = "init"
    /\ path = <<>>
    /\ arg = Null
    /\ ok = TRUE
    /\ got = Null
    /\ steps = 0
    /\ start = root
    /\ calls = <<>>
    /\ other = Null
    /\ ostart = Null
    /\ norms = [root |-> 0, other |-> 0]
    /\ NoHeap

\* j.SetByPath(p, v)
SetByPath(p, v) ==
    /\ IndexBounded(p, 0)
    /\ LET r == jvSetValueByPath(root, p, v)
       IN /\ root' = r.val
          /\ ok' = r.ok
    /\ prev' = root
    /\ op' = "set"
    /\ path' = p
    /\ arg' = v
    /\ got' = Null
    /\ steps' = steps + 1
    /\ calls' = Append(calls, [path |-> p, arg |-> v,
                                ok |-> jvSetValueByPath(root, p, v).ok])
    /\ UNCHANGED <<start, normVars, heapVars>>

\* j.RemoveByPath(p)
RemoveByPath(p) ==
    /\ LET r == jvRemoveValueByPath(root, p)
       IN /\ root' = r.val
          /\ ok' = r.ok
    /\ prev' = root
    /\ op' = "remove"
    /\ path' = p
    /\ arg' = Null
    /\ got' = Null
    /\ steps' = steps + 1
    /\ UNCHANGED <<start, calls, normVars, heapVars>>

\* j.DeepMerge(v), j not nil
DeepMerge(v) ==
    /\ root' = jvDeepMerge(root, v)
    /\ prev' = root
    /\ op' = "merge"
    /\ path' = <<>>
    /\ arg' = v
    /\ ok' = TRUE
    /\ got' = Null
    /\ steps' = steps + 1
    /\ UNCHANGED <<start, calls, normVars, heapVars>>

\* j.GetByPath(p)
CallGetByPath(p) ==
    /\ got' = GetByPath(root, p)
    /\ prev' = root
    /\ op' = "get"
    /\ path' = p
    /\ arg' = Null
    /\ ok' = TRUE
    /\ steps' = steps + 1
    /\ UNCHANGED <<root, start, calls, normVars, heapVars>>

\* j.PathExists(p)
CallPathExists(p) ==
    /\ ok' = PathExists(root, p)
    /\ prev' = root
    /\ op' = "exists"
    /\ path' = p
    /\ arg' = Null
    /\ got' = Null
    /\ steps' = steps + 1
    /\ UNCHANGED <<root, start, calls, normVars, heapVars>>

\* A behaviour of Spec is one call of one method on a handle that holds any
\* tree of Roots; sequences of calls on one handle are behaviours of SpecPush.
CanCall == op = "init"

Next ==
    \/ CanCall /\ \E p \in Paths, v \in SetValues : SetByPath(p, v)
    \/ CanCall /\ \E p \in Paths : RemoveByPath(p)
    \/ CanCall /\ \E v \in MergeSources : DeepMerge(v)
    \/ CanCall /\ \E p \in Paths : CallGetByPath(p)
    \/ CanCall /\ \E p \in Paths : CallPathExists(p)

Spec == Init /\ [][Next]_vars

\* the path "a.-1"
PushPath == <<"a", Delim, "-", "1">>

\* repeated j.SetByPath("a.-1", v) on one handle
NextPush == steps < MaxPushes /\ \E v \in SetValues : SetByPath(PushPath, v)

SpecPush == Init /\ [][NextPush]_vars

TypeOK == op \in {"init", "set", "remove", "merge", "get", "exists", "normalize", "clone"}

-----------------------------------------------------------------------------
(* Normalize on two handles *)

\* scalars of every kind normalizeValue tells apart
NormScalars ==
    {Null, Bool(TRUE), Str(<<"a">>), Num("int", 1), Num("float64", 2),
     Num("float64", 10), JsonNumber(<<"1">>), JsonNumber(<<"a">>)}

\* the elements of the arrays given to Normalize: a number, two arrays that
\* are not in canonical order relative to each other, and an object holding
\* a string and an array
NormElems ==
    {Num("int", 1),
     Arr(<<Num("float64", 2), Num("int", 1)>>),
     Arr(<<Num("int", 1), Null>>),
     Obj((<<"a">> :> Str(<<"a">>)) @@
         (<<"b">> :> Arr(<<Num("float64", 2), Num("int", 1)>>)))}

\* the trees given to Normalize
NormTrees ==
    NormScalars \cup NormElems
      \cup {Arr(e) : e \in UNION {[1..n -> NormElems] : n \in 0..MaxNormLen}}

\* sequence s without its element i
Without(s, i) == SubSeq(s, 1, i - 1) \o SubSeq(s, i + 1, Len(s))

RECURSIVE PermsOf(_)
\* the arrangements of the elements of sequence s
PermsOf(s) ==
    IF s = <<>> THEN {<<>>}
    ELSE UNION {{<<s[i]>> \o t : t \in PermsOf(Without(s, i))} : i \in 1..Len(s)}

RECURSIVE Reorderings(_)
RECURSIVE ReorderedEach(_)
\* the sequences whose element i is a reordering of element i of s
ReorderedEach(s) ==
    IF s = <<>> THEN {<<>>}
    ELSE {<<h>> \o t : h \in Reorderings(Head(s)), t \in ReorderedEach(Tail(s))}

RECURSIVE ReorderedValues(_, _)
\* the maps over the keys K whose value at a key is a reordering of m's
ReorderedValues(m, K) ==
    IF K = {} THEN {[t \in {} |-> Null]}
    ELSE LET key == CHOOSE t \in K : TRUE
         IN {MapPut(g, key, h) : g \in ReorderedValues(m, K \ {key}),
                                 h \in Reorderings(m[key])}

\* the trees obtained from v by permuting the elements of its arrays, at
\* any depth
Reorderings(v) ==
    CASE IsArray(v) -> {Arr(t) : t \in UNION {PermsOf(f) : f \in ReorderedEach(v.e)}}
      [] IsObject(v) -> {Obj(g) : g \in ReorderedValues(v.m, DOMAIN v.m)}
      [] OTHER -> {v}

\* the arrays obtained from array v by dropping one element, by adding a
\* copy of one element, or by putting another element in the place of one
Changes(v) ==
    LET n == Len(v.e)
    IN {Arr(Without(v.e, i)) : i \in 1..n}
         \cup {Arr(Append(v.e, v.e[i])) : i \in 1..n}
         \cup {Arr([v.e EXCEPT ![i] = x]) : i \in 1..n, x \in NormElems}

\* the trees a second handle holds beside a first handle holding v
Variants(v) == Reorderings(v) \cup (IF IsArray(v) THEN Changes(v) ELSE {})

InitNorm ==
    /\ root \in NormTrees
    /\ other \in Variants(root)
    /\ prev = root
    /\ op = "init"
    /\ path = <<>>
    /\ arg = Null
    /\ ok = TRUE
    /\ got = Null
    /\ steps = 0
    /\ start = root
    /\ calls = <<>>
    /\ ostart = other
    /\ norms = [root |-> 0, other |-> 0]
    /\ NoHeap

\* j.Normalize() on the first handle, at most twice
Normalize ==
    /\ norms.root < 2
    /\ root' = normalizeValue(root)
    /\ prev' = root
    /\ op' = "normalize"
    /\ norms' = [norms EXCEPT !.root = @ + 1]
    /\ steps' = steps + 1
    /\ UNCHANGED <<path, arg, ok, got, start, calls, other, ostart, heapVars>>

\* j.Normalize() on the second handle, once
NormalizeOther ==
    /\ norms.other < 1
    /\ other' = normalizeValue(other)
    /\ op' = "normalize"
    /\ norms' = [norms EXCEPT !.other = @ + 1]
    /\ steps' = steps + 1
    /\ UNCHANGED <<root, prev, path, arg, ok, got, start, calls, ostart, heapVars>>

NextNorm == Normalize \/ NormalizeOther

SpecNorm == InitNorm /\ [][NextNorm]_vars

-----------------------------------------------------------------------------
(* Two handles over one heap *)

Handles == {"j", "c"}
OtherOf(x) == IF x = "j" THEN "c" ELSE "j"

\* the trees seen through the two handles
Seen(h, hv) == [x \in Handles |-> Unfold(h, hv[x])]

\* the paths of the calls on the heap
HeapPaths == {<<"a">>, <<"1">>, <<"a", Delim, "a">>, <<"a", Delim, "1">>}

\* the orders in which a range over a map may visit the keys of the model
KeyOrders == PermsOf(<<<<"a">>, <<"1">>>>)

\* the trees of the handle j at the start
HeapRoots ==
    {NewJSONObject,
     Obj((<<"a">> :> Arr(<<Scalar("x"), Obj((<<"a">> :> Scalar("x")))>>))),
     Obj((<<"a">> :> Obj((<<"a">> :> Scalar("x")))) @@ (<<"1">> :> Scalar("x"))),
     Arr(<<Scalar("x"), Obj((<<"a">> :> Arr(<<Scalar("x")>>)))>>),
     Obj((<<"a">> :> Obj((<<"a">> :> Obj((<<"a">> :> Arr(<<Scalar("x")>>))))))
            @@ (<<"1">> :> Scalar("x")))}

\* the trees of freshly constructed arguments
FreshValues == {Scalar("z"), Arr(<<Scalar("z")>>), Obj((<<"a">> :> Arr(<<Scalar("z")>>)))}

\* the trees of the second handle at the start, where it is a value to be
\* given to SetByPath and DeepMerge
HeldValues == {NewJSONObject, Arr(<<Scalar("z")>>), Obj((<<"a">> :> Arr(<<Scalar("z")>>)))}

\* the legacy variables of the single-handle specifications, unused here
Unused ==
    /\ root = Null /\ prev = Null /\ got = Null /\ start = Null
    /\ other = Null /\ ostart = Null /\ norms = [root |-> 0, other |-> 0]

\* j holds a tree; the second handle holds nothing yet
InitClone ==
    /\ \E t \in HeapRoots :
          /\ heap = Build(<<>>, t).h
          /\ hnd = [j |-> Build(<<>>, t).val, c |-> Null]
          /\ seen = [j |-> t, c |-> Null]
          /\ alone = [j |-> t, c |-> Null]
    /\ actor = "j"
    /\ op = "init" /\ path = <<>> /\ arg = Null /\ ok = TRUE
    /\ steps = 0 /\ calls = <<>>
    /\ Unused

\* j holds a tree and the second handle holds a container
InitShare ==
    /\ \E t \in HeapRoots, u \in HeldValues :
          LET b == Build(Build(<<>>, t).h, u)
          IN /\ heap = b.h
             /\ hnd = [j |-> Build(<<>>, t).val, c |-> b.val]
             /\ seen = [j |-> t, c |-> u]
             /\ alone = [j |-> t, c |-> u]
    /\ actor = "j"
    /\ op = "init" /\ path = <<>> /\ arg = Null /\ ok = TRUE
    /\ steps = 0 /\ calls = <<>>
    /\ Unused

UnusedUnchanged == UNCHANGED <<root, prev, got, start, normVars>>

\* c := j.Clone()
HClone ==
    /\ LET r == deepCopyH(heap, hnd.j)
       IN /\ heap' = r.h
          /\ hnd' = [hnd EXCEPT !.c = r.val]
    /\ seen' = Seen(heap, hnd)
    /\ alone' = [alone EXCEPT !.c = Unfold(heap, hnd.j)]
    /\ actor' = "c"
    /\ op' = "clone" /\ path' = <<>> /\ arg' = Null /\ ok' = TRUE
    /\ steps' = steps + 1
    /\ calls' = Append(calls, [op |-> "clone", x |-> "c", y |-> "j"])
    /\ UnusedUnchanged

\* x.SetByPath(p, v) for the handle x, with v a value of the heap h0 (the
\* heap with the argument in it); y names the handle v was taken from
HSetByPath(x, y, p, h0, v) ==
    /\ IndexBounded(p, 0)
    /\ LET r == jvSetValueByPathH(h0, hnd[x], p, v)
       IN /\ heap' = r.h
          /\ hnd' = [hnd EXCEPT ![x] = r.val]
          /\ ok' = r.ok
    /\ seen' = Seen(heap, hnd)
    /\ alone' = [alone EXCEPT ![x] = jvSetValueByPath(alone[x], p, Unfold(h0, v)).val]
    /\ actor' = x
    /\ op' = "set" /\ path' = p /\ arg' = Unfold(h0, v)
    /\ steps' = steps + 1
    /\ calls' = Append(calls, [op |-> "set", x |-> x, y |-> y])
    /\ UnusedUnchanged

\* x.RemoveByPath(p)
HRemoveByPath(x, p) ==
    /\ LET r == jvRemoveValueByPathH(heap, hnd[x], p)
       IN /\ heap' = r.h
          /\ hnd' = [hnd EXCEPT ![x] = r.val]
          /\ ok' = r.ok
    /\ seen' = Seen(heap, hnd)
    /\ alone' = [alone EXCEPT ![x] = jvRemoveValueByPath(alone[x], p).val]
    /\ actor' = x
    /\ op' = "remove" /\ path' = p /\ arg' = Null
    /\ steps' = steps + 1
    /\ calls' = Append(calls, [op |-> "remove", x |-> x, y |-> ""])
    /\ UnusedUnchanged

\* x.DeepMerge(v), with v a value of the heap h0
HDeepMerge(x, y, h0, v, order) ==
    /\ LET r == jvDeepMergeH(h0, hnd[x], v, order)
       IN /\ r.ret
          /\ heap' = r.h
          /\ hnd' = [hnd EXCEPT ![x] = r.val]
    /\ seen' = Seen(heap, hnd)
    /\ alone' = [alone EXCEPT ![x] = jvDeepMerge(alone[x], Unfold(h0, v))]
    /\ actor' = x
    /\ op' = "merge" /\ path' = <<>> /\ arg' = Unfold(h0, v) /\ ok' = TRUE
    /\ steps' = steps + 1
    /\ calls' = Append(calls, [op |-> "merge", x |-> x, y |-> y])
    /\ UnusedUnchanged

\* c = j.GetByPath(p): the second handle becomes the returned handle
HGetByPath(p) ==
    /\ hnd' = [hnd EXCEPT !.c = GetByPathH(heap, hnd.j, p)]
    /\ seen' = Seen(heap, hnd)
    /\ alone' = [alone EXCEPT !.c = GetByPath(alone.j, p)]
    /\ actor' = "c"
    /\ op' = "get" /\ path' = p /\ arg' = Null /\ ok' = TRUE
    /\ steps' = steps + 1
    /\ calls' = Append(calls, [op |-> "get", x |-> "c", y |-> "j"])
    /\ UNCHANGED heap
    /\ UnusedUnchanged

\* calls on the original and on its clone, the clone being taken first and
\* every argument being freshly constructed
CanCallH == op # "init" /\ steps <= MaxHeapSteps

NextClone ==
    \/ op = "init" /\ HClone
    \/ CanCallH /\ \E x \in Handles, p \in HeapPaths, t \in FreshValues :
          HSetByPath(x, "", p, Build(heap, t).h, Build(heap, t).val)
    \/ CanCallH /\ \E x \in Handles, p \in HeapPaths : HRemoveByPath(x, p)
    \/ CanCallH /\ \E x \in Handles, t \in FreshValues, order \in KeyOrders :
          HDeepMerge(x, "", Build(heap, t).h, Build(heap, t).val, order)

SpecClone == InitClone /\ [][NextClone]_vars

\* calls on two handles whose arguments are the values of the handles; the
\* behaviour ends where a cycle has come up (Clone and Equals do not return
\* on a cyclic value)
CanCallS == steps < MaxHeapSteps /\ \A x \in Handles : Acyclic(heap, hnd[x])

NextShare ==
    \/ CanCallS /\ \E x \in Handles, y \in Handles, p \in HeapPaths :
          HSetByPath(x, y, p, heap, hnd[y])
    \/ CanCallS /\ \E x \in Handles, p \in HeapPaths : HRemoveByPath(x, p)
    \/ CanCallS /\ \E x \in Handles, y \in Handles, order \in KeyOrders :
          HDeepMerge(x, y, heap, hnd[y], order)
    \/ CanCallS /\ \E p \in HeapPaths : HGetByPath(p)
    \/ CanCallS /\ HClone

SpecShare == InitShare /\ [][NextShare]_vars

-----------------------------------------------------------------------------
(* Properties of SetByPath *)

RECURSIVE SetTarget(_, _, _)
\* The node the last token of p is applied to, and that token, when a set
\* of p from node cur at position pos gets as far as its last token: a missing
\* or Null child of an object stands for the object created there.
SetTarget(cur, p, pos) ==
    LET t == nextPathToken(p, pos)
        a == Atoi(t.tok)
    IN IF ~t.ok \/ t.tok = <<>> \/ t.next >= Len(p) THEN [node |-> cur, tok |-> t.tok]
       ELSE CASE IsObject(cur) ->
                   IF t.tok \in DOMAIN cur.m /\ ~IsNull(cur.m[t.tok])
                   THEN SetTarget(cur.m[t.tok], p, t.next)
                   ELSE SetTarget(NewJSONObject, p, t.next)
              [] IsArray(cur) ->
                   IF ~a.err /\ a.n >= 0 /\ a.n < Len(cur.e)
                   THEN SetTarget(cur.e[a.n + 1], p, t.next)
                   ELSE [node |-> Null, tok |-> t.tok]
              [] OTHER -> [node |-> Null, tok |-> t.tok]

\* the last token of p is a negative integer applied to an Array (a push)
IsPush(j, p) ==
    LET s == SetTarget(j, p, 0)
    IN IsArray(s.node) /\ ~Atoi(s.tok).err /\ Atoi(s.tok).n < 0

\* C1 as stated: after every successful SetByPath(p, v), GetByPath(p) on the
\* resulting root equals v, pushes (negative last index on an Array) included.
C1_RoundTripAnyPath ==
    (op = "set" /\ ok) => GetByPath(root, path) = arg

\* C1 amended: after a successful SetByPath(p, v) whose last token is not
\* applied as a negative index to an Array, GetByPath(p) on the resulting
\* root equals v; after a push GetByPath(p) is Null instead.
C1_RoundTripUnlessPush ==
    (op = "set" /\ ok) =>
        IF IsPush(prev, path)
        THEN GetByPath(root, path) = Null
        ELSE GetByPath(root, path) = arg

\* a successful set of a non-Null value into a slot of an Array, read back
C1_Witness ==
    /\ op = "set" /\ ok
    /\ ~IsPush(prev, path)
    /\ IsArray(SetTarget(prev, path, 0).node)
    /\ ~IsNull(arg)
    /\ GetByPath(root, path) = arg

\* C2: whenever SetByPath returns failure, the tree equals the tree before
\* the call.
C2_FailureLeavesTreeUnchanged ==
    (op = "set" /\ ~ok) => root = prev

\* p is  t1 <delimiter> t2  with t1 a non-empty token and t2 a non-negative
\* decimal integer
IsKeyThenIndex(p) ==
    LET t1 == nextPathToken(p, 0)
        t2 == nextPathToken(p, t1.next)
    IN /\ t1.ok /\ t1.tok # <<>> /\ t1.next < Len(p)
       /\ t2.ok /\ t2.tok # <<>> /\ t2.next >= Len(p)
       /\ p[Len(p)] # Delim
       /\ ~Atoi(t2.tok).err /\ Atoi(t2.tok).n >= 0

\* C3: SetByPath on an empty object with a path  key.k  (k a non-negative
\* integer) succeeds and leaves under key an Array of length k+1 whose
\* indices 0..k-1 are Null and whose index k is v.
C3_GrowsArrayFromNothing ==
    (op = "set" /\ prev = NewJSONObject /\ IsKeyThenIndex(path)) =>
        LET key == nextPathToken(path, 0).tok
            k == Atoi(nextPathToken(path, nextPathToken(path, 0).next).tok).n
        IN /\ ok
           /\ IsObject(root) /\ key \in DOMAIN root.m
           /\ IsArray(root.m[key])
           /\ Len(root.m[key].e) = k + 1
           /\ \A i \in 1..k : root.m[key].e[i] = Null
           /\ root.m[key].e[k + 1] = arg

RECURSIVE Chain(_, _, _)
\* the object a set of the tokens of p from pos on builds out of nothing:
\* one key per token, the last key holding v
Chain(p, pos, v) ==
    LET t == nextPathToken(p, pos)
    IN IF t.next >= Len(p) THEN Obj((t.tok :> v))
       ELSE Obj((t.tok :> Chain(p, t.next, v)))

RECURSIVE CreatesObjects(_, _, _, _, _)
\* before and after are the same node before and after a successful set of
\* p (from pos on): where the walk meets an Object at a non-last token whose
\* key is absent or holds Null, after holds under that key the chain of
\* single-key Objects for the remaining tokens, whatever their shape
CreatesObjects(before, after, p, pos, v) ==
    LET t == nextPathToken(p, pos)
        a == Atoi(t.tok)
    IN IF t.next >= Len(p) THEN TRUE
       ELSE CASE IsObject(before) ->
                   /\ IsObject(after) /\ t.tok \in DOMAIN after.m
                   /\ IF t.tok \notin DOMAIN before.m \/ IsNull(before.m[t.tok])
                      THEN after.m[t.tok] = Chain(p, t.next, v)
                      ELSE CreatesObjects(before.m[t.tok], after.m[t.tok], p, t.next, v)
              [] IsArray(before) ->
                   /\ IsArray(after) /\ Len(after.e) = Len(before.e)
                   /\ CreatesObjects(before.e[a.n + 1], after.e[a.n + 1], p, t.next, v)
              [] OTHER -> FALSE

RECURSIVE CreationPoint(_, _, _)
\* the position of the token following the first non-last token of p that
\* meets an Object where its key is absent or Null; -1 when there is none
CreationPoint(cur, p, pos) ==
    LET t == nextPathToken(p, pos)
        a == Atoi(t.tok)
    IN IF ~t.ok \/ t.tok = <<>> \/ t.next >= Len(p) THEN -1
       ELSE CASE IsObject(cur) ->
                   IF t.tok \notin DOMAIN cur.m \/ IsNull(cur.m[t.tok]) THEN t.next
                   ELSE CreationPoint(cur.m[t.tok], p, t.next)
              [] IsArray(cur) ->
                   IF ~a.err /\ a.n >= 0 /\ a.n < Len(cur.e)
                   THEN CreationPoint(cur.e[a.n + 1], p, t.next)
                   ELSE -1
              [] OTHER -> -1

C5_RepeatedPushGivesLengthN ==
    (steps >= 1 /\ IsObject(start)
       /\ (<<"a">> \notin DOMAIN start.m \/ IsArray(start.m[<<"a">>]))) =>
        /\ \A i \in 1..Len(calls) : calls[i].ok
        /\ IsObject(root) /\ <<"a">> \in DOMAIN root.m
        /\ IsArray(root.m[<<"a">>])
        /\ Len(root.m[<<"a">>].e) = Len(calls)
        /\ \A i \in 1..Len(calls) : root.m[<<"a">>].e[i] = calls[i].arg

-----------------------------------------------------------------------------
(* Properties of PathExists and GetByPath *)

RECURSIVE PathTokens(_, _)
\* the tokens the path iterator yields from position i on, before it stops
\* (at the end of the string or at an empty segment)
PathTokens(p, i) ==
    LET t == pathIterNext(p, i)
    IN IF ~t.ok \/ t.tok = <<>> THEN <<>> ELSE <<t.tok>> \o PathTokens(p, t.i)

\* tok is an index within the bounds of array node cur
InBounds(cur, tok) ==
    ~Atoi(tok).err /\ Atoi(tok).n >= 0 /\ Atoi(tok).n < Len(cur.e)

RECURSIVE Resolves(_, _)
\* every token of toks resolves from node cur: a present key of an Object,
\* an index within the bounds of an Array
Resolves(cur, toks) ==
    \/ toks = <<>>
    \/ /\ toks # <<>>
       /\ \/ IsObject(cur) /\ Head(toks) \in DOMAIN cur.m
                           /\ Resolves(cur.m[Head(toks)], Tail(toks))
          \/ IsArray(cur) /\ InBounds(cur, Head(toks))
                          /\ Resolves(cur.e[Atoi(Head(toks)).n + 1], Tail(toks))

RECURSIVE Addressed(_, _)
\* the value toks addresses from cur, for toks that resolve
Addressed(cur, toks) ==
    IF toks = <<>> THEN cur
    ELSE IF IsObject(cur) THEN Addressed(cur.m[Head(toks)], Tail(toks))
    ELSE Addressed(cur.e[Atoi(Head(toks)).n + 1], Tail(toks))

\* C6: PathExists is true exactly for the paths whose every token resolves,
\* also when the addressed value is Null (a key holding Null, an in-bounds
\* hole); GetByPath returns Null for such a path and for a path that does
\* not resolve, and the addressed value otherwise.
C6_ExistsIsThePresenceCheck ==
    LET toks == PathTokens(path, 0)
    IN /\ op = "exists" => (ok <=> Resolves(root, toks))
       /\ op = "get" =>
            /\ (~Resolves(root, toks) => got = Null)
            /\ (Resolves(root, toks) => got = Addressed(root, toks))

\* PathExists answered true for an in-bounds hole of an array, which
\* GetByPath reads as Null, just as it reads a path that does not resolve
C6_Witness ==
    /\ op = "exists" /\ ok
    /\ IsArray(root)
    /\ PathTokens(path, 0) # <<>>
    /\ Resolves(root, PathTokens(path, 0))
    /\ Addressed(root, PathTokens(path, 0)) = Null
    /\ GetByPath(root, path) = Null
    /\ GetByPath(root, <<"a">>) = Null /\ ~PathExists(root, <<"a">>)

-----------------------------------------------------------------------------
(* Properties of RemoveByPath *)

RECURSIVE RmTarget(_, _, _)
\* the node the last token of p is applied to by a remove, and that token;
\* hit is FALSE when the walk does not get to the last token
RmTarget(cur, p, pos) ==
    LET t == nextPathToken(p, pos)
        miss == [hit |-> FALSE, node |-> Null, tok |-> <<>>]
    IN IF ~t.ok \/ t.tok = <<>> THEN miss
       ELSE IF t.next >= Len(p) THEN [hit |-> TRUE, node |-> cur, tok |-> t.tok]
       ELSE CASE IsObject(cur) ->
                   IF t.tok \in DOMAIN cur.m THEN RmTarget(cur.m[t.tok], p, t.next)
                   ELSE miss
              [] IsArray(cur) ->
                   IF InBounds(cur, t.tok)
                   THEN RmTarget(cur.e[Atoi(t.tok).n + 1], p, t.next)
                   ELSE miss
              [] OTHER -> miss

RECURSIVE OnlyTargetChanged(_, _, _, _)
\* before and after are the same node before and after a remove of p (from
\* pos on) that gets to its last token: along the path nothing differs but
\* the child walked into; at the last token an Object has lost that key and
\* nothing else, an Array has that slot Null, its length and every other
\* slot as before
OnlyTargetChanged(before, after, p, pos) ==
    LET t == nextPathToken(p, pos)
        last == t.next >= Len(p)
        n == Atoi(t.tok).n
    IN CASE IsObject(before) ->
              /\ IsObject(after)
              /\ DOMAIN after.m = IF last THEN (DOMAIN before.m) \ {t.tok}
                                  ELSE DOMAIN before.m
              /\ \A key \in (DOMAIN after.m) \ {t.tok} : after.m[key] = before.m[key]
              /\ last \/ OnlyTargetChanged(before.m[t.tok], after.m[t.tok], p, t.next)
         [] IsArray(before) ->
              /\ IsArray(after)
              /\ Len(after.e) = Len(before.e)
              /\ \A i \in (1..Len(before.e)) \ {n + 1} : after.e[i] = before.e[i]
              /\ IF last THEN after.e[n + 1] = Null
                 ELSE OnlyTargetChanged(before.e[n + 1], after.e[n + 1], p, t.next)
         [] OTHER -> FALSE

\* C7: RemoveByPath whose last token is an in-bounds index of an Array
\* succeeds, sets exactly that slot to Null, leaves the length and every
\* other slot (and the rest of the tree) unchanged, and GetByPath of the
\* path is then Null; with the index out of bounds it returns failure.
C7_RemoveArraySlot ==
    LET tg == RmTarget(prev, path, 0)
    IN (op = "remove" /\ tg.hit /\ IsArray(tg.node) /\ ~Atoi(tg.tok).err) =>
          IF InBounds(tg.node, tg.tok)
          THEN /\ ok
               /\ OnlyTargetChanged(prev, root, path, 0)
               /\ GetByPath(root, path) = Null
          ELSE ~ok

\* a remove that cleared a non-Null slot of a nested array of two elements
C7_Witness ==
    LET tg == RmTarget(prev, path, 0)
    IN /\ op = "remove" /\ ok
       /\ tg.hit /\ IsArray(tg.node) /\ InBounds(tg.node, tg.tok)
       /\ Len(tg.node.e) = 2 /\ tg.node # prev
       /\ tg.node.e[Atoi(tg.tok).n + 1] # Null
       /\ root # prev
       /\ OnlyTargetChanged(prev, root, path, 0)

\* C8: RemoveByPath whose last token names a key of an Object succeeds
\* whether or not the key is present: a present key is deleted (PathExists
\* of the path becomes false), every other key and the rest of the tree
\* unchanged; with the key absent the whole tree is unchanged.
C8_RemoveObjectKey ==
    LET tg == RmTarget(prev, path, 0)
    IN (op = "remove" /\ tg.hit /\ IsObject(tg.node)) =>
          /\ ok
          /\ IF tg.tok \in DOMAIN tg.node.m
             THEN /\ OnlyTargetChanged(prev, root, path, 0)
                  /\ ~PathExists(root, path)
             ELSE root = prev

\* a remove that deleted one of the two keys of an object
C8_Witness ==
    LET tg == RmTarget(prev, path, 0)
    IN /\ op = "remove" /\ ok
       /\ tg.hit /\ IsObject(tg.node)
       /\ tg.tok \in DOMAIN tg.node.m /\ Cardinality(DOMAIN tg.node.m) = 2
       /\ PathExists(prev, path) /\ ~PathExists(root, path)
       /\ OnlyTargetChanged(prev, root, path, 0)

-----------------------------------------------------------------------------
(* Properties of DeepMerge *)

IsContainer(v) == IsObject(v) \/ IsArray(v)

\* C9 as stated: with differing kinds, or with neither side a container,
\* dst becomes src; in particular a container dst is overwritten by a
\* scalar, Null or the other container kind.
C9_MismatchOverwrites ==
    (op = "merge" /\ (prev.k # arg.k \/ (~IsContainer(prev) /\ ~IsContainer(arg)))) =>
        root = arg

\* C9 amended: DeepMerge(dst, src) overwrites dst with src exactly when dst
\* is not a container (a scalar or Null), whatever src is; when dst is an
\* Object or Array and src is of another kind, dst is left as it was.
C9_OnlyLeafDstOverwritten ==
    op = "merge" =>
        /\ ~IsContainer(prev) => root = arg
        /\ (IsContainer(prev) /\ prev.k # arg.k) => root = prev

\* a merge of a scalar into a non-empty Object, which left the Object alone
C9_Witness ==
    /\ op = "merge"
    /\ IsObject(prev) /\ DOMAIN prev.m # {}
    /\ arg.k = "scalar"
    /\ root = prev /\ root # arg

Range(s) == {s[i] : i \in 1..Len(s)}

RECURSIVE FirstOccurrences(_)
\* s without the elements that repeat an earlier element of s
FirstOccurrences(s) ==
    IF s = <<>> THEN <<>>
    ELSE LET init == SubSeq(s, 1, Len(s) - 1)
         IN IF s[Len(s)] \in Range(init) THEN FirstOccurrences(init)
            ELSE Append(FirstOccurrences(init), s[Len(s)])

\* C10 as stated: merging two Arrays gives dst's elements in their order,
\* followed by the elements of src, in src order and once each, that equal
\* no element of dst, Null included.
C10_ArrayUnionWithNull ==
    (op = "merge" /\ IsArray(prev) /\ IsArray(arg)) =>
        LET IsNew(x) == x \notin Range(prev.e)
        IN root = Arr(prev.e \o FirstOccurrences(SelectSeq(arg.e, IsNew)))

\* C10 amended: merging two Arrays gives dst's elements in their order,
\* followed by the non-Null elements of src, in src order and once each,
\* that equal no element of dst; a Null element of src is never appended.
C10_ArrayUnionSkipsNull ==
    (op = "merge" /\ IsArray(prev) /\ IsArray(arg)) =>
        LET IsNew(x) == x # Null /\ x \notin Range(prev.e)
        IN root = Arr(prev.e \o FirstOccurrences(SelectSeq(arg.e, IsNew)))

\* a merge of [.., x] with [x, z]: x is not appended again, z is
C10_Witness ==
    /\ op = "merge" /\ IsArray(prev) /\ IsArray(arg)
    /\ prev.e # <<>> /\ Len(arg.e) = 2
    /\ arg.e[1] \in Range(prev.e) /\ arg.e[1] # Null
    /\ arg.e[2] \notin Range(prev.e) /\ arg.e[2] # Null
    /\ root = Arr(Append(prev.e, arg.e[2]))

\* C11: DeepMerge of two Objects leaves in dst exactly the union of both key
\* sets: a key only in dst keeps its value, a key only in src holds src's
\* value, a key in both holds the result of DeepMerge(dst[key], src[key]).
C11_ObjectMergeIsKeyUnion ==
    (op = "merge" /\ IsObject(prev) /\ IsObject(arg)) =>
        /\ IsObject(root)
        /\ DOMAIN root.m = (DOMAIN prev.m) \cup (DOMAIN arg.m)
        /\ \A key \in (DOMAIN prev.m) \ (DOMAIN arg.m) : root.m[key] = prev.m[key]
        /\ \A key \in (DOMAIN arg.m) \ (DOMAIN prev.m) : root.m[key] = arg.m[key]
        /\ \A key \in (DOMAIN prev.m) \cap (DOMAIN arg.m) :
              root.m[key] = jvDeepMerge(prev.m[key], arg.m[key])

\* a merge of {a:[..], 1:x} with {a:[..], -:z}: a key of each kind, and under
\* the common key an array that is neither dst's nor src's
C11_Witness ==
    /\ op = "merge" /\ IsObject(prev) /\ IsObject(arg) /\ IsObject(root)
    /\ (DOMAIN prev.m) \ (DOMAIN arg.m) # {}
    /\ (DOMAIN arg.m) \ (DOMAIN prev.m) # {}
    /\ \E key \in (DOMAIN prev.m) \cap (DOMAIN arg.m) :
          /\ IsArray(prev.m[key]) /\ IsArray(arg.m[key])
          /\ root.m[key] # prev.m[key] /\ root.m[key] # arg.m[key]
          /\ root.m[key] = Arr(mergeArrayLoop(prev.m[key].e, arg.m[key].e))
    /\ DOMAIN root.m = (DOMAIN prev.m) \cup (DOMAIN arg.m)

-----------------------------------------------------------------------------
(* Properties of Normalize *)

\* C12: Normalize is idempotent: after a second Normalize the value Equals
\* the value after the first.
C12_NormalizeIdempotent ==
    norms.root = 2 => Equals(root, prev)

\* a second Normalize of an array whose first Normalize changed the order
\* of its elements and the elements themselves
C12_Witness ==
    /\ norms.root = 2 /\ IsArray(start) /\ Len(start.e) >= 2
    /\ \A i \in 1..Len(start.e) : start.e[i] \notin Range(prev.e)
    /\ Equals(root, prev) /\ ~Equals(prev, start)

RECURSIVE IsReordering(_, _)
\* b is a with the elements of arrays permuted, at any depth
IsReordering(a, b) ==
    CASE IsArray(a) ->
           /\ IsArray(b) /\ Len(b.e) = Len(a.e)
           /\ \/ a.e = <<>>
              \/ \E i \in 1..Len(b.e) :
                    /\ IsReordering(Head(a.e), b.e[i])
                    /\ IsReordering(Arr(Tail(a.e)), Arr(Without(b.e, i)))
      [] IsObject(a) ->
           /\ IsObject(b) /\ DOMAIN b.m = DOMAIN a.m
           /\ \A key \in DOMAIN a.m : IsReordering(a.m[key], b.m[key])
      [] OTHER -> a = b

\* C13: if tree B is tree A with the elements of any arrays permuted, at any
\* depth and with elements of mixed kinds, then Normalize(A) Equals
\* Normalize(B).
C13_OrderInsensitive ==
    (norms.root >= 1 /\ norms.other = 1 /\ IsReordering(start, ostart)) =>
        Equals(root, other)

\* two trees that differ in the order of an outer array and of an array
\* inside one of its elements, equal after Normalize
C13_Witness ==
    /\ norms.root = 1 /\ norms.other = 1
    /\ IsArray(start) /\ IsArray(ostart) /\ Len(start.e) >= 2
    /\ IsReordering(start, ostart)
    /\ start.e[1] # ostart.e[1]
    /\ \E i \in 1..Len(start.e) : start.e[i] \notin Range(ostart.e)
    /\ Equals(root, other)

\* the multiset of the elements of a sequence: how often each occurs
BagOf(s) == [x \in Range(s) |-> Cardinality({i \in 1..Len(s) : s[i] = x})]

\* the multiset of the normalized elements of array v
NormBag(v) == BagOf([i \in 1..Len(v.e) |-> normalizeValue(v.e[i])])

\* C14: Normalize keeps the length of an array and the multiset of its
\* normalized elements, so two arrays whose multisets of normalized elements
\* differ are not Equals after Normalize.
C14_MultiplicityPreserved ==
    /\ (norms.root >= 1 /\ IsArray(start)) =>
          /\ IsArray(root) /\ Len(root.e) = Len(start.e)
          /\ BagOf(root.e) = NormBag(start)
    /\ (norms.root >= 1 /\ norms.other = 1 /\ IsArray(start) /\ IsArray(ostart)
          /\ NormBag(start) # NormBag(ostart)) =>
          ~Equals(root, other)

\* an array with an element twice beside the array with it once: the same
\* elements, another multiset, unequal lengths after Normalize
C14_Witness ==
    /\ norms.root = 1 /\ norms.other = 1
    /\ IsArray(start) /\ IsArray(ostart)
    /\ Range(start.e) = Range(ostart.e)
    /\ Len(ostart.e) = Len(start.e) + 1
    /\ IsObject(ostart.e[Len(ostart.e)])
    /\ NormBag(start) # NormBag(ostart)
    /\ Len(other.e) = Len(root.e) + 1
    /\ ~Equals(root, other)

-----------------------------------------------------------------------------
(* Properties of Clone and of ownership *)

Mutations == {"set", "remove", "merge"}

\* C15: Clone(j) Equals j; after the clone is taken, every call of
\* SetByPath, RemoveByPath or DeepMerge through one of the two handles, in
\* any interleaving, leaves the tree of the other handle as it was, so that
\* each tree is what the calls made through its own handle produce alone;
\* and a call through the clone that changes the clone's tree while it
\* Equals the original makes Equals(original, clone) false.
C15_CloneIndependent ==
    op # "init" =>
        /\ op = "clone" => Equals(Unfold(heap, hnd.c), Unfold(heap, hnd.j))
        /\ \A x \in Handles : Unfold(heap, hnd[x]) = alone[x]
        /\ op \in Mutations =>
              Unfold(heap, hnd[OtherOf(actor)]) = seen[OtherOf(actor)]
        /\ (op \in Mutations /\ actor = "c" /\ Equals(seen.c, seen.j)
              /\ Unfold(heap, hnd.c) # seen.c) =>
              ~Equals(Unfold(heap, hnd.j), Unfold(heap, hnd.c))

\* a set through the clone, two tokens deep into a container the original
\* also has, after a call through the original: the clone differs from what
\* it was and the original does not
C15_Witness ==
    /\ op = "set" /\ ok /\ actor = "c" /\ steps = 3
    /\ calls[2].x = "j"
    /\ Len(path) = 3
    /\ PathExists(seen.j, <<path[1]>>) /\ PathExists(seen.c, <<path[1]>>)
    /\ Unfold(heap, hnd.c) # seen.c
    /\ Unfold(heap, hnd.j) = seen.j
    /\ ~Equals(Unfold(heap, hnd.j), Unfold(heap, hnd.c))

\* C16: starting from acyclic trees, after any sequence of SetByPath,
\* RemoveByPath, DeepMerge and Clone calls whose value arguments are handles
\* obtained through the API (the target's own handle, a GetByPath result)
\* no container is reachable from itself.
C16_NoContainerReachesItself == \A x \in Handles : Acyclic(heap, hnd[x])

\* the first call put the value of the other handle, a container, into the
\* tree of a handle: x.SetByPath(p, y) that succeeded or x.DeepMerge(y),
\* with y another handle than x
FirstCallShares ==
    /\ Len(calls) >= 1
    /\ calls[1].op \in {"set", "merge"}
    /\ calls[1].y = OtherOf(calls[1].x)

\* C17: after SetByPath(root, p, v) with v a container, or DeepMerge(dst,
\* src), a later SetByPath, RemoveByPath or DeepMerge through one of the two
\* handles does not change the tree seen through the other handle.
C17_ExclusiveOwnership ==
    (steps = 2 /\ FirstCallShares /\ op \in Mutations
        /\ \A x \in Handles : Acyclic(heap, hnd[x])) =>
        Unfold(heap, hnd[OtherOf(actor)]) = seen[OtherOf(actor)]

-----------------------------------------------------------------------------
(* Sets one after another on one handle *)

\* the tokens of the paths: a key, numerals of 0 and of 1, a second numeral
\* of 1, a negative index
FrameTokens == {<<"a">>, <<"0">>, <<"1">>, <<"0", "1">>, <<"-", "1">>}

\* the paths of one token and of two tokens
FramePaths ==
    FrameTokens \cup {s \o <<Delim>> \o t : s \in FrameTokens, t \in FrameTokens}

\* the values of the sets, given in turn
FrameValues == <<Scalar("z"), Arr(<<Scalar("z")>>)>>
NextFrameValue == FrameValues[(steps % Len(FrameValues)) + 1]

\* the trees the handle starts with
FrameRoots ==
    {NewJSONObject,
     NewJSONArray,
     Arr(<<Scalar("x"), Arr(<<Scalar("x"), Scalar("y")>>)>>),
     Obj((<<"a">> :> Arr(<<Scalar("x"), Scalar("y")>>)) @@ (<<"1">> :> Obj((<<"0">> :> Scalar("x")))))}

InitFrame ==
    /\ root \in FrameRoots
    /\ prev = root
    /\ op = "init"
    /\ path = <<>>
    /\ arg = Null
    /\ ok = TRUE
    /\ got = Null
    /\ steps = 0
    /\ start = root
    /\ calls = <<>>
    /\ other = Null
    /\ ostart = Null
    /\ norms = [root |-> 0, other |-> 0]
    /\ NoHeap

NextFrame ==
    steps < MaxFrameSets /\ \E p \in FramePaths : SetByPath(p, NextFrameValue)

SpecFrame == InitFrame /\ [][NextFrame]_vars

\* the token sequence s is a prefix of the token sequence t, the tokens
\* compared by Same
IsTokenPrefix(s, t, Same(_, _)) ==
    Len(s) <= Len(t) /\ \A i \in 1..Len(s) : Same(s[i], t[i])

\* neither of the paths p and q is a token-prefix of the other
PrefixFree(p, q, Same(_, _)) ==
    /\ ~IsTokenPrefix(PathTokens(p, 0), PathTokens(q, 0), Same)
    /\ ~IsTokenPrefix(PathTokens(q, 0), PathTokens(p, 0), Same)

\* tokens that are the same string
SameString(s, t) == s = t

\* tokens that are the same string or numerals of the same integer, which
\* name the same slot of an array
SameSlot(s, t) ==
    s = t \/ (~Atoi(s).err /\ ~Atoi(t).err /\ Atoi(s).n = Atoi(t).n)

\* the last token of p is a negative index
NegativeLast(p) ==
    LET toks == PathTokens(p, 0)
    IN toks # <<>> /\ ~Atoi(toks[Len(toks)]).err /\ Atoi(toks[Len(toks)]).n < 0

\* the last call was a successful set that leaves every path unchanged
\* that is prefix-free with its path
LaterSetKeeps(Same(_, _)) ==
    (op = "set" /\ ok /\ ~NegativeLast(path)) =>
        \A q \in FramePaths :
            PrefixFree(path, q, Same) => GetByPath(root, q) = GetByPath(prev, q)

\* the calls so far were successful sets on pairwise prefix-free paths, no
\* last token a negative index
PrefixFreeSets(Same(_, _)) ==
    /\ \A i \in 1..Len(calls) : calls[i].ok /\ ~NegativeLast(calls[i].path)
    /\ \A i \in 1..Len(calls) : \A k \in 1..Len(calls) :
          i # k => PrefixFree(calls[i].path, calls[k].path, Same)

\* every path of the calls yields the value set for it
EveryPathYields ==
    \A i \in 1..Len(calls) : GetByPath(root, calls[i].path) = calls[i].arg

\* C18 as stated: after a successful SetByPath(root, p, v), p's last token
\* not a negative index, GetByPath(root, q) is unchanged for every q such
\* that neither p nor q is a token-prefix of the other; after sets on
\* pairwise prefix-free paths every path yields the value set for it.
C18_LaterSetsKeepEarlier ==
    /\ LaterSetKeeps(SameString)
    /\ PrefixFreeSets(SameString) => EveryPathYields

\* C18 with token-prefix taken over tokens in which numerals of the same
\* integer count as the same token: the set leaves GetByPath(root, q)
\* unchanged for every prefix-free q, and after sets on pairwise prefix-free
\* paths every path yields the value set for it.
C18_LaterSetsKeepEarlier_SameSlot ==
    /\ LaterSetKeeps(SameSlot)
    /\ PrefixFreeSets(SameSlot) => EveryPathYields

\* a second set went two tokens deep into an array the first set grew, the
\* two paths prefix-free and differing in the last token only, and both
\* paths yield their values
C18_Witness ==
    /\ Len(calls) = 2 /\ PrefixFreeSets(SameSlot)
    /\ Len(PathTokens(calls[1].path, 0)) = 2 /\ Len(PathTokens(calls[2].path, 0)) = 2
    /\ PathTokens(calls[1].path, 0)[1] = PathTokens(calls[2].path, 0)[1]
    /\ IsArray(GetByPath(root, PathTokens(path, 0)[1]))
    /\ root # prev /\ prev # start
    /\ calls[1].arg # calls[2].arg
    /\ EveryPathYields

-----------------------------------------------------------------------------
(* Properties of the store into an array slot *)

\* the last token of p is applied to an Array as the index i >= 0
IsIndexStore(j, p) ==
    LET s == SetTarget(j, p, 0)
    IN IsArray(s.node) /\ ~Atoi(s.tok).err /\ Atoi(s.tok).n >= 0

\* the array the last token of path was applied to, before and after the
\* call, and the index
StoreBefore == SetTarget(prev, path, 0).node
StoreAfter == SetTarget(root, path, 0).node
StoreIndex == Atoi(SetTarget(prev, path, 0).tok).n

\* C19: SetByPath whose last token is a non-negative index i < len of the
\* Array it reaches overwrites slot i only: the array length is unchanged and
\* every other slot keeps its value.
C19_InBoundsOverwrite ==
    (op = "set" /\ IsIndexStore(prev, path) /\ StoreIndex < Len(StoreBefore.e)) =>
        /\ ok
        /\ IsArray(StoreAfter)
        /\ Len(StoreAfter.e) = Len(StoreBefore.e)
        /\ StoreAfter.e[StoreIndex + 1] = arg
        /\ \A k \in 1..Len(StoreBefore.e) :
              k # StoreIndex + 1 => StoreAfter.e[k] = StoreBefore.e[k]

\* C20: SetByPath whose last token is an index i >= len of an Array at any
\* depth, the root included, succeeds, and the tree of the handle then holds
\* at that place an array of length exactly i+1 whose first len slots are the
\* old elements, whose slots len..i-1 are Null and whose slot i is v.
C20_GrowthReattached ==
    (op = "set" /\ IsIndexStore(prev, path) /\ StoreIndex >= Len(StoreBefore.e)) =>
        /\ ok
        /\ IsArray(StoreAfter)
        /\ Len(StoreAfter.e) = StoreIndex + 1
        /\ \A k \in 1..Len(StoreBefore.e) : StoreAfter.e[k] = StoreBefore.e[k]
        /\ \A k \in (Len(StoreBefore.e) + 1)..StoreIndex : StoreAfter.e[k] = Null
        /\ StoreAfter.e[StoreIndex + 1] = arg

\* a non-Null value stored past the end of a non-empty array held inside the
\* root, leaving holes between the old elements and the value
C20_Witness ==
    /\ op = "set" /\ ok /\ IsIndexStore(prev, path)
    /\ StoreBefore # prev
    /\ Len(StoreBefore.e) >= 1
    /\ StoreIndex > Len(StoreBefore.e)
    /\ ~IsNull(arg) /\ ~IsNull(StoreBefore.e[1])
    /\ Len(StoreAfter.e) = StoreIndex + 1
    /\ StoreAfter.e[StoreIndex] = Null
    /\ StoreAfter.e[StoreIndex + 1] = arg

-----------------------------------------------------------------------------
(* Properties of the push and of failing sets *)

\* C21: SetByPath whose last token is a negative integer and whose current
\* node is an Array of length n succeeds and yields an array of length n+1
\* whose first n slots are unchanged and whose slot n is v.
C21_PushAppends ==
    (op = "set" /\ IsPush(prev, path)) =>
        /\ ok
        /\ IsArray(StoreAfter)
        /\ Len(StoreAfter.e) = Len(StoreBefore.e) + 1
        /\ \A k \in 1..Len(StoreBefore.e) : StoreAfter.e[k] = StoreBefore.e[k]
        /\ StoreAfter.e[Len(StoreBefore.e) + 1] = arg

\* a non-Null value pushed onto a non-empty array held inside the root
C21_Witness ==
    /\ op = "set" /\ ok /\ IsPush(prev, path)
    /\ StoreBefore # prev
    /\ Len(StoreBefore.e) >= 1 /\ ~IsNull(StoreBefore.e[1])
    /\ ~IsNull(arg)
    /\ StoreAfter.e[Len(StoreAfter.e)] = arg

\* tok is written as an integer: an optional sign and then digits
IsDecimal(tok) ==
    LET body == IF tok # <<>> /\ Head(tok) \in {"-", "+"} THEN Tail(tok) ELSE tok
    IN body # <<>> /\ \A i \in 1..Len(body) : \E d \in 1..10 : DigitChars[d] = body[i]

RECURSIVE SetStops(_, _, _)
\* the walk of a set of p from node cur at position pos comes, with a token
\* at hand, to a scalar or Null node, or at a non-last token to an Array the
\* token is no index of (not an integer, negative, or not below the length);
\* under a missing or Null key of an object the walk goes on in the object
\* created there
SetStops(cur, p, pos) ==
    LET t == nextPathToken(p, pos)
        last == t.next >= Len(p)
    IN IF ~t.ok \/ t.tok = <<>> THEN FALSE
       ELSE CASE IsObject(cur) ->
                   IF last THEN FALSE
                   ELSE IF t.tok \in DOMAIN cur.m /\ ~IsNull(cur.m[t.tok])
                        THEN SetStops(cur.m[t.tok], p, t.next)
                        ELSE SetStops(NewJSONObject, p, t.next)
              [] IsArray(cur) ->
                   IF last THEN FALSE
                   ELSE IF ~IsDecimal(t.tok) THEN TRUE
                        ELSE IF Atoi(t.tok).n < 0 \/ Atoi(t.tok).n >= Len(cur.e) THEN TRUE
                        ELSE SetStops(cur.e[Atoi(t.tok).n + 1], p, t.next)
              [] OTHER -> TRUE

\* C22: SetByPath returns failure when, at a non-last token, the current
\* node is an Array and the token is not an integer, is negative or is not
\* below the array length, and when the current node is a scalar or Null with
\* tokens remaining.
C22_NoTraversalThroughAbsent ==
    (op = "set" /\ SetStops(prev, path, 0)) => ~ok

\* a set that failed at its first token on a non-empty array, the token an
\* integer not below the length of the array and one more token following;
\* the array was not grown
C22_Witness ==
    /\ op = "set" /\ ~ok /\ SetStops(prev, path, 0)
    /\ IsArray(prev) /\ Len(prev.e) >= 1
    /\ Len(PathTokens(path, 0)) = 2
    /\ IsDecimal(PathTokens(path, 0)[1])
    /\ Atoi(PathTokens(path, 0)[1]).n >= Len(prev.e)
    /\ root = prev

-----------------------------------------------------------------------------
(* Properties of RemoveByPath on paths that do not resolve *)

RECURSIVE RemoveMeets(_, _, _)
\* what the walk of a remove of p from node cur at position pos meets at a
\* non-last token: "key" for a key the Object does not have, "index" for an
\* integer that is no index of the Array, "leaf" for a scalar or Null node,
\* "other" when there is none of these
RemoveMeets(cur, p, pos) ==
    LET t == nextPathToken(p, pos)
        last == t.next >= Len(p)
    IN IF ~t.ok \/ t.tok = <<>> \/ last THEN "other"
       ELSE CASE IsObject(cur) ->
                   IF t.tok \notin DOMAIN cur.m THEN "key"
                   ELSE RemoveMeets(cur.m[t.tok], p, t.next)
              [] IsArray(cur) ->
                   IF ~IsDecimal(t.tok) THEN "other"
                   ELSE IF Atoi(t.tok).n < 0 \/ Atoi(t.tok).n >= Len(cur.e) THEN "index"
                   ELSE RemoveMeets(cur.e[Atoi(t.tok).n + 1], p, t.next)
              [] OTHER -> "leaf"

\* C23: RemoveByPath returns success whenever a non-last token names
\* something missing, an absent key of an Object or an out-of-range index of
\* an Array, and the tree is unchanged in that case.
C23_RemoveMissingSucceeds ==
    (op = "remove" /\ RemoveMeets(prev, path, 0) \in {"key", "index"}) =>
        ok /\ root = prev

\* v is a scalar or Null
IsLeaf(v) == ~IsObject(v) /\ ~IsArray(v)

RECURSIVE LeadsIntoLeaf(_, _, _)
\* the walk of a remove of p from node cur at position pos follows a
\* non-last token into a scalar or Null node
LeadsIntoLeaf(cur, p, pos) ==
    LET t == nextPathToken(p, pos)
        last == t.next >= Len(p)
        child == IF IsObject(cur) THEN cur.m[t.tok] ELSE cur.e[Atoi(t.tok).n + 1]
        has == IF IsObject(cur) THEN t.tok \in DOMAIN cur.m
               ELSE IsArray(cur) /\ IsDecimal(t.tok)
                      /\ Atoi(t.tok).n >= 0 /\ Atoi(t.tok).n < Len(cur.e)
    IN IF ~t.ok \/ t.tok = <<>> \/ last \/ ~has THEN FALSE
       ELSE IF IsLeaf(child) THEN TRUE
       ELSE LeadsIntoLeaf(child, p, t.next)

\* C24: RemoveByPath returns failure when a non-last token leads into a
\* scalar or Null node, and whenever RemoveByPath returns failure the tree
\* equals the tree before the call.
C24_RemoveThroughLeafFails ==
    /\ (op = "remove" /\ LeadsIntoLeaf(prev, path, 0)) => ~ok
    /\ (op = "remove" /\ ~ok) => root = prev

\* the second half of C24 alone: a failed RemoveByPath leaves the tree as
\* it was
FailedRemoveKeepsTree == (op = "remove" /\ ~ok) => root = prev

-----------------------------------------------------------------------------
(* Properties of the empty path *)

\* C25: GetByPath("") returns the root unchanged and PathExists("") is true
\* for every tree, and RemoveByPath("") always succeeds and sets the handle's
\* whole value to Null whatever the root was.
C25_EmptyPathIsTheRoot ==
    path = <<>> =>
        /\ op = "get" => (got = prev /\ root = prev)
        /\ op = "exists" => (ok /\ root = prev)
        /\ op = "remove" => (ok /\ root = Null)

\* RemoveByPath("") on a handle that held an object with a key
C25_Witness ==
    /\ op = "remove" /\ path = <<>> /\ ok
    /\ IsObject(prev) /\ DOMAIN prev.m # {}
    /\ root = Null

-----------------------------------------------------------------------------
(* Array lengths across one call *)

\* the places at which a tree of Roots holds an array: the root, key "a" of
\* an object, slot 1 of an array
ArrayPlaces == {<<>>, <<"a">>, <<"1">>}

\* an array is at place q before and after the call
ArrayStays(q) == IsArray(GetByPath(prev, q)) /\ IsArray(GetByPath(root, q))

\* the call put its value argument at place q or above it: what is at q
\* afterwards is the argument or a part of it
PutByCall(q) ==
    op = "set" /\ ok /\ IsTokenPrefix(PathTokens(path, 0), PathTokens(q, 0), SameSlot)

-----------------------------------------------------------------------------
(* Two sets in either order *)

\* the tree the handle holds when the two sets of calls are made in the
\* opposite order on the tree it started with
OppositeOrder ==
    jvSetValueByPath(jvSetValueByPath(start, calls[2].path, calls[2].arg).val,
                     calls[1].path, calls[1].arg).val

\* C27: for two paths neither of which is a token-prefix of the other and
\* neither ending in a negative index, SetByPath(p1, v1) then
\* SetByPath(p2, v2) yields a tree equal to the one the opposite order
\* yields, also when both address slots of the same array.  Token-prefix is
\* taken with numerals of the same integer as the same token, and the two
\* sets are successful ones.
C27_SetOrderIndependent ==
    (Len(calls) = 2 /\ PrefixFreeSets(SameSlot)) => Equals(root, OppositeOrder)

-----------------------------------------------------------------------------
(* Properties of DeepMerge on two handles *)

\* the handle given to the last call as its argument
LastSource == hnd[calls[Len(calls)].y]

\* the last call was x.DeepMerge(y) and left no cycle
MergedLast ==
    /\ op = "merge"
    /\ \A x \in Handles : Acyclic(heap, hnd[x])

\* C28: performing DeepMerge(dst, src) a second time with the same src
\* leaves dst equal to dst after the first merge, whatever the order in which
\* the keys of src are visited.
C28_MergeIdempotent ==
    MergedLast =>
        \A order \in KeyOrders :
            LET r == jvDeepMergeH(heap, hnd[actor], LastSource, order)
            IN r.ret /\ Equals(Unfold(r.h, r.val), Unfold(heap, hnd[actor]))

RECURSIVE Storage(_, _, _)
\* the maps and backing arrays a value of at most n levels of containers
\* is made of
Storage(h, v, n) ==
    IF n = 0 THEN {}
    ELSE CASE IsMapRef(v) ->
                {v.a} \cup UNION {Storage(h, h[v.a].m[key], n - 1) : key \in DOMAIN h[v.a].m}
           [] IsSlice(v) ->
                (IF v.a = 0 THEN {} ELSE {v.a})
                    \cup UNION {Storage(h, h[v.a].e[i], n - 1) : i \in 1..v.n}
           [] OTHER -> {}

\* the values v1 and v2 have no map and no backing array in common
NoSharedStorage(h, v1, v2) ==
    LET n == Cardinality(HeapNodes(h)) + 1
    IN Storage(h, v1, n) \cap Storage(h, v2, n) = {}

\* the step is a call x.DeepMerge(y) on two handles that share no storage
MergeOfApart ==
    /\ op' = "merge"
    /\ NoSharedStorage(heap, hnd[actor'], hnd[calls'[Len(calls')].y])

-----------------------------------------------------------------------------
(* The root after RemoveByPath *)

\* C30: for every non-empty path string, a root that was a container before
\* RemoveByPath is a container of the same kind after it.
C30_RemoveKeepsRootKind ==
    (op = "remove" /\ path # <<>>) =>
        /\ IsObject(prev) => IsObject(root)
        /\ IsArray(prev) => IsArray(root)

====
